---------------------------- MODULE Spec2Model ----------------------------
(***************************************************************************)
(* Field type detection of finnviz (fieldDetection.ts): the classifier     *)
(* detectFieldType and its helpers, modelled as operators over raw cell    *)
(* values, and a small state machine that applies it to a column; the      *)
(* batch detectAllFields; and the application state of AppContext.tsx with *)
(* the reducer cases that load data and change field types and encodings.  *)
(* Further parts: the file parser (parseFile with its size and row limits), *)
(* localStorage and the persistence module, the remaining reducer cases     *)
(* (filters, projects, chart settings), and the handlers and effects of     *)
(* AppProvider (mount, auto-save of the last session, saving, loading and   *)
(* deleting projects).                                                      *)
(*                                                                         *)
(* A raw cell value is a record [t, n, d, s]:                              *)
(*   t = "number"    the JavaScript number n/d (d a power of ten, the      *)
(*                   fraction in lowest decimal terms, so that equal       *)
(*                   numbers are equal records)                            *)
(*   t = "string"    the text s, a sequence of one-character strings       *)
(*   t = "null", t = "undefined"                                           *)
(* A number with d = 0 is NaN (the result of Number() on unparsable text). *)
(***************************************************************************)
EXTENDS Integers, Sequences, FiniteSets, TLC

VARIABLES values, fieldName, result, pc, other, otherResult, state, upload,
          lastIndex, file, parseResult, storage, lastCall

\* the variables of the application: its state and the parsed file that
\* waits to be loaded
appVars == <<state, upload>>

\* the browser around the application: the file picked for upload, what
\* parseFile made of it, localStorage, and the call of the application or
\* of the persistence module that was made last, with its arguments
browserVars == <<file, parseResult, storage, lastCall>>

vars == <<values, fieldName, result, pc, other, otherResult, state, upload,
          lastIndex, file, parseResult, storage, lastCall>>

---------------------------------------------------------------------------
(* Raw cell values *)

Null == [t |-> "null", n |-> 0, d |-> 1, s |-> <<>>]
Undefined == [t |-> "undefined", n |-> 0, d |-> 1, s |-> <<>>]
Str(chars) == [t |-> "string", n |-> 0, d |-> 1, s |-> chars]
NaN == [t |-> "number", n |-> 0, d |-> 0, s |-> <<>>]

RECURSIVE Normalize(_, _)
Normalize(n, d) ==
  IF d > 1 /\ n % 10 = 0 THEN Normalize(n \div 10, d \div 10)
  ELSE [t |-> "number", n |-> n, d |-> d, s |-> <<>>]

\* the number n/d
Num(n, d) == Normalize(n, d)
IntNum(n) == Num(n, 1)

typeof(v) == v.t

isNaN(x) == x.t = "number" /\ x.d = 0

\* Number.isInteger on a number (NaN is no integer)
NumberIsInteger(x) == x.t = "number" /\ x.d = 1

\* a < b on numbers that are not NaN
NumLess(a, b) == a.n * b.d < b.n * a.d

---------------------------------------------------------------------------
(* Characters *)

DigitChars == <<"0", "1", "2", "3", "4", "5", "6", "7", "8", "9">>
UpperChars == <<"A", "B", "C", "D", "E", "F", "G", "H", "I", "J", "K", "L", "M",
                "N", "O", "P", "Q", "R", "S", "T", "U", "V", "W", "X", "Y", "Z">>
LowerChars == <<"a", "b", "c", "d", "e", "f", "g", "h", "i", "j", "k", "l", "m",
                "n", "o", "p", "q", "r", "s", "t", "u", "v", "w", "x", "y", "z">>

\* \d of a regular expression
DigitSet == {DigitChars[i] : i \in DOMAIN DigitChars}
IsDigit(c) == c \in DigitSet

DigitValues == [c \in DigitSet |-> (CHOOSE i \in DOMAIN DigitChars : DigitChars[i] = c) - 1]
DigitVal(c) == DigitValues[c]

\* \s of a regular expression, and the white space Number() trims
IsSpace(c) == c \in {" ", "\t", "\n", "\r"}

\* case folding of the i flag
FoldTable ==
  [c \in {UpperChars[i] : i \in DOMAIN UpperChars} |->
     LowerChars[CHOOSE i \in DOMAIN UpperChars : UpperChars[i] = c]]

LowerChar(c) == IF c \in DOMAIN FoldTable THEN FoldTable[c] ELSE c

ToLower(s) == [i \in DOMAIN s |-> LowerChar(s[i])]

\* s[from..to] are all digits (an empty range holds no digit: TRUE)
AllDigits(s, from, to) == \A i \in from..to : i \in DOMAIN s /\ IsDigit(s[i])

\* s[from..] starts with the text lit
HasAt(s, from, lit) ==
  /\ from + Len(lit) - 1 <= Len(s)
  /\ \A i \in DOMAIN lit : s[from + i - 1] = lit[i]

EndsWith(s, lit) == Len(s) >= Len(lit) /\ HasAt(s, Len(s) - Len(lit) + 1, lit)


---------------------------------------------------------------------------
(* Number(v) on text: white space trimmed, empty text is 0, an optional    *)
(* sign, then decimal digits with an optional fraction.  Exponents, hex    *)
(* literals and "Infinity" are not modelled: no text of the model's        *)
(* columns uses them.                                                      *)

RECURSIVE DigitsValue(_)
DigitsValue(s) ==
  IF s = <<>> THEN 0
  ELSE 10 * DigitsValue(SubSeq(s, 1, Len(s) - 1)) + DigitVal(s[Len(s)])

RECURSIVE Pow10(_)
Pow10(k) == IF k = 0 THEN 1 ELSE 10 * Pow10(k - 1)

Trim(s) ==
  LET keep == {i \in DOMAIN s : ~IsSpace(s[i])}
  IN  IF keep = {} THEN <<>>
      ELSE SubSeq(s, CHOOSE i \in keep : \A j \in keep : i <= j,
                     CHOOSE i \in keep : \A j \in keep : j <= i)

\* an unsigned decimal literal: digits, "." digits, digits "." or digits "." digits
UnsignedToNumber(s) ==
  LET dots == {i \in DOMAIN s : s[i] = "."}
  IN  IF Cardinality(dots) > 1 THEN NaN
      ELSE LET dot  == IF dots = {} THEN Len(s) + 1 ELSE CHOOSE i \in dots : TRUE
               ip   == SubSeq(s, 1, dot - 1)
               fp   == SubSeq(s, dot + 1, Len(s))
           IN  IF /\ Len(ip) + Len(fp) >= 1
                  /\ AllDigits(ip, 1, Len(ip))
                  /\ AllDigits(fp, 1, Len(fp))
               THEN Num(DigitsValue(ip \o fp), Pow10(Len(fp)))
               ELSE NaN

StringToNumber(s) ==
  LET w == Trim(s)
  IN  IF w = <<>> THEN IntNum(0)
      ELSE IF w[1] = "-"
           THEN LET x == UnsignedToNumber(Tail(w))
                IN  IF isNaN(x) THEN NaN ELSE Num(0 - x.n, x.d)
           ELSE IF w[1] = "+" THEN UnsignedToNumber(Tail(w))
           ELSE UnsignedToNumber(w)

\* Number(v) for a number or a text
Number(v) == IF typeof(v) = "number" THEN v ELSE StringToNumber(v.s)

---------------------------------------------------------------------------
(* DATE_PATTERNS *)

\* /^\d{4}-\d{2}-\d{2}$/
DatePatternYMD(s) ==
  /\ Len(s) = 10
  /\ AllDigits(s, 1, 4) /\ s[5] = "-"
  /\ AllDigits(s, 6, 7) /\ s[8] = "-"
  /\ AllDigits(s, 9, 10)

\* /^\d{4}-\d{2}-\d{2}T\d{2}:\d{2}:\d{2}/  (no $: a prefix)
DatePatternISO(s) ==
  /\ Len(s) >= 19
  /\ AllDigits(s, 1, 4) /\ s[5] = "-"
  /\ AllDigits(s, 6, 7) /\ s[8] = "-"
  /\ AllDigits(s, 9, 10) /\ s[11] = "T"
  /\ AllDigits(s, 12, 13) /\ s[14] = ":"
  /\ AllDigits(s, 15, 16) /\ s[17] = ":"
  /\ AllDigits(s, 18, 19)

\* /^\d{1,2}SEP\d{1,2}SEP\d{2,4}$/
DatePatternSep(s, sep) ==
  \E a \in 1..2, b \in 1..2, c \in 2..4 :
    /\ Len(s) = a + b + c + 2
    /\ AllDigits(s, 1, a) /\ s[a + 1] = sep
    /\ AllDigits(s, a + 2, a + b + 1) /\ s[a + b + 2] = sep
    /\ AllDigits(s, a + b + 3, a + b + c + 2)

DATE_PATTERNS(s) ==
  \/ DatePatternYMD(s)
  \/ DatePatternISO(s)
  \/ DatePatternSep(s, "/")
  \/ DatePatternSep(s, "-")

---------------------------------------------------------------------------
(* ORDINAL_STRING_PATTERNS, all with the i flag *)

\* /^(x{0,3}[sml]|small|medium|large|x+large)$/i
OrdinalPatternSize(s) ==
  LET l == ToLower(s)
  IN  \/ /\ Len(l) \in 1..4
         /\ l[Len(l)] \in {"s", "m", "l"}
         /\ \A i \in 1..(Len(l) - 1) : l[i] = "x"
      \/ l \in {<<"s", "m", "a", "l", "l">>,
                <<"m", "e", "d", "i", "u", "m">>,
                <<"l", "a", "r", "g", "e">>}
      \/ /\ Len(l) >= 6
         /\ EndsWith(l, <<"l", "a", "r", "g", "e">>)
         /\ \A i \in 1..(Len(l) - 5) : l[i] = "x"

\* /^(low|medium|high|critical|urgent)$/i
OrdinalPatternPriority(s) ==
  ToLower(s) \in {<<"l", "o", "w">>,
                  <<"m", "e", "d", "i", "u", "m">>,
                  <<"h", "i", "g", "h">>,
                  <<"c", "r", "i", "t", "i", "c", "a", "l">>,
                  <<"u", "r", "g", "e", "n", "t">>}

\* /^(poor|fair|good|excellent|outstanding)$/i
OrdinalPatternQuality(s) ==
  ToLower(s) \in {<<"p", "o", "o", "r">>,
                  <<"f", "a", "i", "r">>,
                  <<"g", "o", "o", "d">>,
                  <<"e", "x", "c", "e", "l", "l", "e", "n", "t">>,
                  <<"o", "u", "t", "s", "t", "a", "n", "d", "i", "n", "g">>}

\* strongly\s*TAIL as a whole value
StronglyThen(l, tail) ==
  /\ HasAt(l, 1, <<"s", "t", "r", "o", "n", "g", "l", "y">>)
  /\ Len(l) >= 8 + Len(tail)
  /\ EndsWith(l, tail)
  /\ \A i \in 9..(Len(l) - Len(tail)) : IsSpace(l[i])

\* /^(strongly\s*disagree|disagree|neutral|agree|strongly\s*agree)$/i
OrdinalPatternAgreement(s) ==
  LET l == ToLower(s)
      disagree == <<"d", "i", "s", "a", "g", "r", "e", "e">>
      agree == <<"a", "g", "r", "e", "e">>
  IN  \/ StronglyThen(l, disagree)
      \/ l \in {disagree, <<"n", "e", "u", "t", "r", "a", "l">>, agree}
      \/ StronglyThen(l, agree)

ORDINAL_STRING_PATTERNS(s) ==
  \/ OrdinalPatternSize(s)
  \/ OrdinalPatternPriority(s)
  \/ OrdinalPatternQuality(s)
  \/ OrdinalPatternAgreement(s)

---------------------------------------------------------------------------
(* ID_NAME_PATTERNS, all with the i flag; "." matches no line terminator *)

IsLineTerminator(c) == c \in {"\n", "\r"}

\* ^.*LIT$ : the text ends in LIT and nothing before it is a line terminator
DotStarThen(l, lit) ==
  /\ EndsWith(l, lit)
  /\ \A i \in 1..(Len(l) - Len(lit)) : ~IsLineTerminator(l[i])

\* the k-th pattern of ID_NAME_PATTERNS on the lower-cased name
IdNamePattern(k, l) ==
  CASE k = 1 -> l = <<"i", "d">>                        \* /^id$/i
    [] k = 2 -> EndsWith(l, <<"_", "i", "d">>)          \* /_id$/i
    [] k = 3 -> DotStarThen(l, <<"_", "i", "d">>)       \* /^.*_id$/i
    [] k = 4 -> DotStarThen(l, <<"i", "d">>)            \* /^.*id$/i
    [] k = 5 -> EndsWith(l, <<"c", "o", "d", "e">>)     \* /code$/i
    [] k = 6 -> l = <<"k", "e", "y">>                   \* /^key$/i
    [] k = 7 -> DotStarThen(l, <<"_", "k", "e", "y">>)  \* /^.*_key$/i

ID_NAME_PATTERNS(name) ==
  LET l == ToLower(name)
  IN  \E k \in 1..7 : IdNamePattern(k, l)

---------------------------------------------------------------------------
(* Sequences as JavaScript arrays *)

Range(seq) == {seq[i] : i \in DOMAIN seq}

(* Array.prototype.filter is SelectSeq *)

\* [...numbers].sort((a, b) => a - b): the k-th entry of the result is the
\* number with fewer than k entries below it and at least k entries not above
\* a sort that leaves the array as given
SortAscending_asGiven(seq) == seq

SortAscending(seq) ==
  [k \in 1..Len(seq) |->
     CHOOSE x \in Range(seq) :
       /\ Cardinality({i \in DOMAIN seq : NumLess(seq[i], x)}) < k
       /\ k <= Cardinality({i \in DOMAIN seq : ~NumLess(x, seq[i])})]

\* reduce((sum, v) => sum + v, 0) over integers, summed by halves
RECURSIVE SumInts(_)
SumInts(seq) ==
  IF Len(seq) = 0 THEN 0
  ELSE IF Len(seq) = 1 THEN seq[1].n
  ELSE LET half == Len(seq) \div 2
       IN  SumInts(SubSeq(seq, 1, half)) + SumInts(SubSeq(seq, half + 1, Len(seq)))

\* Math.min(...numbers), Math.max(...numbers) of a non-empty array without NaN
MathMin(seq) == CHOOSE x \in Range(seq) : \A y \in Range(seq) : ~NumLess(y, x)
MathMax(seq) == CHOOSE x \in Range(seq) : \A y \in Range(seq) : ~NumLess(x, y)

\* a - b
NumSub(a, b) == Num(a.n * b.d - b.n * a.d, a.d * b.d)

---------------------------------------------------------------------------
(* fieldDetection.ts *)

CATEGORICAL_THRESHOLD == 20

\* sample = nonNullValues.slice(0, 100)
SAMPLE_SIZE == 100

(* The thresholds 0.8, 0.5, 0.7 and 0.3 are compared as exact fractions.   *)
(* For array lengths up to SAMPLE_SIZE the double products length * 0.8    *)
(* and length * 0.5 and the double quotient gaps / (length - 1) compare    *)
(* with an integer, or with the literals 0.7 and 0.3, exactly as the       *)
(* fractions do: a multiple of five times 0.8 rounds to the integer, and a *)
(* correctly rounded quotient equal to 7/10 or 3/10 is the literal itself. *)

\* isTemporalField without the share-of-text test
isTemporalField_noTextShare(vals) ==
  LET stringValues == SelectSeq(vals, LAMBDA v : typeof(v) = "string")
      dateMatches == SelectSeq(stringValues, LAMBDA v : DATE_PATTERNS(v.s))
  IN  Len(dateMatches) * 10 >= Len(stringValues) * 8

\* isTemporalField with > for >= in the share of date matches
isTemporalField_strictThreshold(vals) ==
  LET stringValues == SelectSeq(vals, LAMBDA v : typeof(v) = "string")
  IN  IF Len(stringValues) * 10 < Len(vals) * 8 THEN FALSE
      ELSE LET dateMatches == SelectSeq(stringValues, LAMBDA v : DATE_PATTERNS(v.s))
           IN  Len(dateMatches) * 10 > Len(stringValues) * 8

isTemporalField(vals) ==
  LET stringValues == SelectSeq(vals, LAMBDA v : typeof(v) = "string")
  IN  IF Len(stringValues) * 10 < Len(vals) * 8 THEN FALSE
      ELSE LET dateMatches == SelectSeq(stringValues, LAMBDA v : DATE_PATTERNS(v.s))
           IN  Len(dateMatches) * 10 >= Len(stringValues) * 8

\* hasIdFieldName with only the first pattern, /^id$/i
hasIdFieldName_exactIdOnly(name) == ToLower(name.s) = <<"i", "d">>

hasIdFieldName(name) == ID_NAME_PATTERNS(name.s)

\* RatioExceeds with a one-element array counted as fully sequential
RatioExceeds_zeroPairsIsSequential(gaps, pairs, num, den) ==
  IF pairs = 0 THEN TRUE ELSE gaps * den > num * pairs

\* gaps / (sorted.length - 1) > num / den; 0 / 0 is NaN, greater than nothing
RatioExceeds(gaps, pairs, num, den) == pairs > 0 /\ gaps * den > num * pairs

\* looksLikeId without the rule for large values
looksLikeId_noMagnitudeRule(vals) ==
  LET numericValues == SelectSeq(vals, LAMBDA v : typeof(v) = "number")
  IN  IF Len(numericValues) # Len(vals) THEN FALSE
      ELSE IF ~(\A i \in DOMAIN numericValues : NumberIsInteger(numericValues[i]))
      THEN FALSE
      ELSE LET sorted == SortAscending(numericValues)
               gaps == Cardinality({i \in 2..Len(sorted) :
                                      sorted[i].n - sorted[i - 1].n = 1})
           IN  RatioExceeds(gaps, Len(sorted) - 1, 7, 10)

\* looksLikeId that is content with one pair of successive integers
looksLikeId_anySuccessor(vals) ==
  /\ \A i \in DOMAIN vals : typeof(vals[i]) = "number" /\ NumberIsInteger(vals[i])
  /\ \E i, j \in DOMAIN vals : vals[j].n - vals[i].n = 1

\* looksLikeId that asks for a mean above 10000 in both rules
looksLikeId_largeValuesOnly(vals) ==
  LET numericValues == SelectSeq(vals, LAMBDA v : typeof(v) = "number")
  IN  IF Len(numericValues) # Len(vals) THEN FALSE
      ELSE IF ~(\A i \in DOMAIN numericValues : NumberIsInteger(numericValues[i]))
      THEN FALSE
      ELSE LET sorted == SortAscending(numericValues)
               gaps == Cardinality({i \in 2..Len(sorted) :
                                      sorted[i].n - sorted[i - 1].n = 1})
           IN  /\ SumInts(numericValues) > 10000 * Len(numericValues)
               /\ RatioExceeds(gaps, Len(sorted) - 1, 3, 10)

looksLikeId(vals) ==
  LET numericValues == SelectSeq(vals, LAMBDA v : typeof(v) = "number")
  IN  IF Len(numericValues) # Len(vals) THEN FALSE
      ELSE IF ~(\A i \in DOMAIN numericValues : NumberIsInteger(numericValues[i]))
      THEN FALSE
      ELSE LET sorted == SortAscending(numericValues)
               gaps == Cardinality({i \in 2..Len(sorted) :
                                      sorted[i].n - sorted[i - 1].n = 1})
               pairs == Len(sorted) - 1
           IN  IF RatioExceeds(gaps, pairs, 7, 10) THEN TRUE
               ELSE \* avgValue = sum / length > 10000
                    /\ SumInts(numericValues) > 10000 * Len(numericValues)
                    /\ RatioExceeds(gaps, pairs, 3, 10)

\* isOrdinalString without the test for two distinct values
isOrdinalString_noDistinctCheck(vals) ==
  LET stringValues == SelectSeq(vals, LAMBDA v : typeof(v) = "string")
  IN  IF Len(stringValues) # Len(vals) THEN FALSE
      ELSE LET matchingValues ==
                 SelectSeq(stringValues, LAMBDA v : ORDINAL_STRING_PATTERNS(v.s))
           IN  Len(matchingValues) * 10 >= Len(stringValues) * 5

isOrdinalString(vals) ==
  LET stringValues == SelectSeq(vals, LAMBDA v : typeof(v) = "string")
  IN  IF Len(stringValues) # Len(vals) THEN FALSE
      ELSE IF Cardinality(Range(stringValues)) < 2 THEN FALSE
      ELSE LET matchingValues ==
                 SelectSeq(stringValues, LAMBDA v : ORDINAL_STRING_PATTERNS(v.s))
           IN  Len(matchingValues) * 10 >= Len(stringValues) * 5

\* nonNullValues that keeps empty text
nonNullValues_keepsEmptyText(vals) ==
  SelectSeq(vals, LAMBDA v : v # Null /\ v # Undefined)

\* values.filter((v) => v !== null && v !== undefined && v !== '')
nonNullValues(vals) ==
  SelectSeq(vals, LAMBDA v : v # Null /\ v # Undefined /\ v # Str(<<>>))

\* sampleOf without the cap
sampleOf_noCap(nonNull) == nonNull

\* nonNullValues.slice(0, 100)
sampleOf(nonNull) ==
  SubSeq(nonNull, 1, IF Len(nonNull) < SAMPLE_SIZE THEN Len(nonNull) ELSE SAMPLE_SIZE)

\* isNumericValue without the isNaN test
isNumericValue_anyText(v) == typeof(v) = "number" \/ typeof(v) = "string"

\* typeof v === 'number' || (typeof v === 'string' && !isNaN(Number(v)))
isNumericValue(v) ==
  typeof(v) = "number" \/ (typeof(v) = "string" /\ ~isNaN(Number(v)))

\* fieldName && hasIdFieldName(fieldName)
namedLikeId(name) ==
  /\ name # Undefined
  /\ name # Str(<<>>)
  /\ hasIdFieldName(name)

\* numericFieldType with < for <= in the test of the range
numericFieldType_strictRange(numericValues, uniqueCount) ==
  LET actualNumbers == [i \in DOMAIN numericValues |-> Number(numericValues[i])]
      hasDecimals == \E i \in DOMAIN actualNumbers : ~NumberIsInteger(actualNumbers[i])
      range == NumSub(MathMax(actualNumbers), MathMin(actualNumbers))
  IN  IF hasDecimals THEN "quantitative"
      ELSE IF NumLess(IntNum(100), range) THEN "quantitative"
      ELSE IF uniqueCount = 1 THEN "quantitative"
      ELSE IF /\ uniqueCount <= CATEGORICAL_THRESHOLD
              /\ NumLess(range, IntNum(CATEGORICAL_THRESHOLD))
      THEN "ordinal"
      ELSE "quantitative"

\* numericFieldType without the test for decimals
numericFieldType_noDecimalCheck(numericValues, uniqueCount) ==
  LET actualNumbers == [i \in DOMAIN numericValues |-> Number(numericValues[i])]
      range == NumSub(MathMax(actualNumbers), MathMin(actualNumbers))
  IN  IF NumLess(IntNum(100), range) THEN "quantitative"
      ELSE IF uniqueCount = 1 THEN "quantitative"
      ELSE IF /\ uniqueCount <= CATEGORICAL_THRESHOLD
              /\ ~NumLess(IntNum(CATEGORICAL_THRESHOLD), range)
      THEN "ordinal"
      ELSE "quantitative"

\* the heuristics on the numbers of a numeric sample that is no identifier
numericFieldType(numericValues, uniqueCount) ==
  LET actualNumbers == [i \in DOMAIN numericValues |-> Number(numericValues[i])]
      hasDecimals == \E i \in DOMAIN actualNumbers : ~NumberIsInteger(actualNumbers[i])
      range == NumSub(MathMax(actualNumbers), MathMin(actualNumbers))
  IN  IF hasDecimals THEN "quantitative"
      ELSE IF NumLess(IntNum(100), range) THEN "quantitative"
      ELSE IF uniqueCount = 1 THEN "quantitative"
      ELSE IF /\ uniqueCount <= CATEGORICAL_THRESHOLD
              /\ ~NumLess(IntNum(CATEGORICAL_THRESHOLD), range)
      THEN "ordinal"
      ELSE "quantitative"

\* detectFieldType that tests the field name first
detectFieldType_nameFirst(vals, name) ==
  LET nonNull == nonNullValues(vals)
  IN  IF Len(nonNull) = 0 THEN "nominal"
      ELSE LET sample == sampleOf(nonNull)
               uniqueCount == Cardinality(Range(sample))
               numericValues == SelectSeq(sample, isNumericValue)
           IN  IF namedLikeId(name) THEN "nominal"
               ELSE IF isTemporalField(sample) THEN "temporal"
               ELSE IF isOrdinalString(sample) THEN "ordinal"
               ELSE IF Len(numericValues) # Len(sample) THEN "nominal"
               ELSE IF looksLikeId(sample) THEN "nominal"
               ELSE numericFieldType(numericValues, uniqueCount)

detectFieldType(vals, name) ==
  LET nonNull == nonNullValues(vals)
  IN  IF Len(nonNull) = 0 THEN "nominal"
      ELSE LET sample == sampleOf(nonNull)
               uniqueCount == Cardinality(Range(sample))
           IN  IF isTemporalField(sample) THEN "temporal"
               ELSE IF isOrdinalString(sample) THEN "ordinal"
               ELSE LET numericValues == SelectSeq(sample, isNumericValue)
                        isNumeric == Len(numericValues) = Len(sample)
                    IN  IF isNumeric
                        THEN IF namedLikeId(name) THEN "nominal"
                             ELSE IF looksLikeId(sample) THEN "nominal"
                             ELSE numericFieldType(numericValues, uniqueCount)
                        ELSE "nominal"

---------------------------------------------------------------------------
(* The pattern tables as objects: every RegExp has a lastIndex, which      *)
(* test() reads and writes when the pattern has the g flag.  A pattern is  *)
(* named by its table and its place in the table.                          *)

DatePatternIds == <<<<"date", 1>>, <<"date", 2>>, <<"date", 3>>, <<"date", 4>>>>
OrdinalPatternIds ==
  <<<<"ordinal", 1>>, <<"ordinal", 2>>, <<"ordinal", 3>>, <<"ordinal", 4>>>>
IdNamePatternIds ==
  <<<<"idName", 1>>, <<"idName", 2>>, <<"idName", 3>>, <<"idName", 4>>,
    <<"idName", 5>>, <<"idName", 6>>, <<"idName", 7>>>>
PatternIds == Range(DatePatternIds) \cup Range(OrdinalPatternIds) \cup Range(IdNamePatternIds)

\* lastIndex of every pattern after construction
NoMatchYet == [p \in PatternIds |-> 0]

\* a table in which the first date pattern has the g flag
PatternIsGlobal_firstDatePattern(p) == p = <<"date", 1>>

\* no pattern of the three tables has the g (or y) flag
PatternIsGlobal(p) == FALSE

\* does the pattern match the text somewhere
PatternFound(p, s) ==
  CASE p = <<"date", 1>> -> DatePatternYMD(s)
    [] p = <<"date", 2>> -> DatePatternISO(s)
    [] p = <<"date", 3>> -> DatePatternSep(s, "/")
    [] p = <<"date", 4>> -> DatePatternSep(s, "-")
    [] p = <<"ordinal", 1>> -> OrdinalPatternSize(s)
    [] p = <<"ordinal", 2>> -> OrdinalPatternPriority(s)
    [] p = <<"ordinal", 3>> -> OrdinalPatternQuality(s)
    [] p = <<"ordinal", 4>> -> OrdinalPatternAgreement(s)
    [] OTHER -> IdNamePattern(p[2], ToLower(s))

\* where the match starts: at 0 for a pattern that begins with ^
MatchStart(p, s) ==
  CASE p = <<"idName", 2>> -> Len(s) - 3      \* /_id$/i
    [] p = <<"idName", 5>> -> Len(s) - 4      \* /code$/i
    [] OTHER -> 0

\* where the match ends: at the end of the text for a pattern that ends in $
MatchEnd(p, s) == IF p = <<"date", 2>> THEN 19 ELSE Len(s)

\* RegExp.prototype.test: the outcome and the new lastIndex, for a pattern
\* whose match on the text is found from start to end
testOutcome(global, found, start, end, li) ==
  IF ~global THEN [ok |-> found, lastIndex |-> li]
  ELSE IF found /\ start >= li THEN [ok |-> TRUE, lastIndex |-> end]
  ELSE [ok |-> FALSE, lastIndex |-> 0]

\* pattern.test(s) with lastIndex li
test(p, li, s) ==
  testOutcome(PatternIsGlobal(p), PatternFound(p, s), MatchStart(p, s), MatchEnd(p, s), li)

\* the table state after a test of pattern p
tested(tbl, p, outcome) ==
  [ok |-> outcome.ok, tbl |-> [tbl EXCEPT ![p] = outcome.lastIndex]]

\* patterns.some((pattern) => pattern.test(s)) from the k-th pattern on, in
\* the table state tbl
RECURSIVE someFrom(_, _, _, _)
someFrom(patterns, k, prev, s) ==
  IF k > Len(patterns) \/ prev.ok THEN prev
  ELSE someFrom(patterns, k + 1,
                tested(prev.tbl, patterns[k], test(patterns[k], prev.tbl[patterns[k]], s)),
                s)

\* patterns.some((pattern) => pattern.test(s)): the outcome and the table
\* state it leaves
some(patterns, tbl, s) == someFrom(patterns, 1, [ok |-> FALSE, tbl |-> tbl], s)

counted(count, outcome) ==
  [count |-> count + (IF outcome.ok THEN 1 ELSE 0), tbl |-> outcome.tbl]

\* strings.filter((v) => patterns.some(...)).length from the i-th value on
RECURSIVE countFrom(_, _, _, _)
countFrom(patterns, strings, i, prev) ==
  IF i > Len(strings) THEN prev
  ELSE countFrom(patterns, strings, i + 1,
                 counted(prev.count, some(patterns, prev.tbl, strings[i].s)))

countMatching(patterns, tbl, strings) ==
  countFrom(patterns, strings, 1, [count |-> 0, tbl |-> tbl])

\* isTemporalField(values) from the table state tbl: the outcome and the
\* table state it leaves
isTemporalFieldCall(vals, tbl) ==
  LET stringValues == SelectSeq(vals, LAMBDA v : typeof(v) = "string")
  IN  IF Len(stringValues) * 10 < Len(vals) * 8 THEN [ok |-> FALSE, tbl |-> tbl]
      ELSE LET dates == countMatching(DatePatternIds, tbl, stringValues)
           IN  [ok |-> dates.count * 10 >= Len(stringValues) * 8, tbl |-> dates.tbl]

\* isOrdinalString(values) from the table state tbl
isOrdinalStringCall(vals, tbl) ==
  LET stringValues == SelectSeq(vals, LAMBDA v : typeof(v) = "string")
  IN  IF Len(stringValues) # Len(vals) THEN [ok |-> FALSE, tbl |-> tbl]
      ELSE IF Cardinality(Range(stringValues)) < 2 THEN [ok |-> FALSE, tbl |-> tbl]
      ELSE LET words == countMatching(OrdinalPatternIds, tbl, stringValues)
           IN  [ok |-> words.count * 10 >= Len(stringValues) * 5, tbl |-> words.tbl]

\* fieldName && hasIdFieldName(fieldName) from the table state tbl
namedLikeIdCall(name, tbl) ==
  IF name = Undefined \/ name = Str(<<>>) THEN [ok |-> FALSE, tbl |-> tbl]
  ELSE some(IdNamePatternIds, tbl, name.s)

\* the numeric branch and the fallback of detectFieldType
numericBranchCall(sample, name, tbl) ==
  LET numericValues == SelectSeq(sample, isNumericValue)
  IN  IF Len(numericValues) # Len(sample) THEN [tag |-> "nominal", tbl |-> tbl]
      ELSE LET named == namedLikeIdCall(name, tbl)
           IN  [tag |-> IF named.ok THEN "nominal"
                        ELSE IF looksLikeId(sample) THEN "nominal"
                        ELSE numericFieldType(numericValues, Cardinality(Range(sample))),
                tbl |-> named.tbl]

\* detectFieldType after the test for dates
ordinalBranchCall(sample, name, tbl) ==
  LET words == isOrdinalStringCall(sample, tbl)
  IN  IF words.ok THEN [tag |-> "ordinal", tbl |-> words.tbl]
      ELSE numericBranchCall(sample, name, words.tbl)

\* one call of detectFieldType from the table state tbl: the tag it returns
\* and the table state it leaves
detectFieldTypeCall(vals, name, tbl) ==
  LET nonNull == nonNullValues(vals)
  IN  IF Len(nonNull) = 0 THEN [tag |-> "nominal", tbl |-> tbl]
      ELSE LET dates == isTemporalFieldCall(sampleOf(nonNull), tbl)
           IN  IF dates.ok THEN [tag |-> "temporal", tbl |-> dates.tbl]
               ELSE ordinalBranchCall(sampleOf(nonNull), name, dates.tbl)

---------------------------------------------------------------------------
(* detectAllFields: a dataset is a sequence of rows; a row is the sequence *)
(* of its entries [key, value] in the order Object.keys lists them (the    *)
(* insertion order, for keys that are no array indices), no key twice      *)

ObjectKeys(row) == [i \in DOMAIN row |-> row[i].key]

\* row[name]: undefined when the row has no such key
Get(row, name) ==
  IF \E i \in DOMAIN row : row[i].key = name
  THEN row[CHOOSE i \in DOMAIN row : row[i].key = name].value
  ELSE Undefined

\* data.map((row) => row[name])
columnOf(data, name) == [r \in DOMAIN data |-> Get(data[r], name)]

\* new Set(values.filter((v) => v != null)).size
uniqueCountOf(vals) ==
  Cardinality(Range(SelectSeq(vals, LAMBDA v : v # Null /\ v # Undefined)))

\* detectAllFields that also reads the keys of the last row
detectAllFields_keysOfLastRow(data) ==
  LET fieldNames ==
        IF Len(data) = 0 THEN <<>>
        ELSE ObjectKeys(data[1]) \o
             SelectSeq(ObjectKeys(data[Len(data)]),
                       LAMBDA k : \A i \in DOMAIN data[1] : data[1][i].key # k)
  IN  [i \in DOMAIN fieldNames |->
         [name |-> fieldNames[i],
          type |-> detectFieldType(columnOf(data, fieldNames[i]), fieldNames[i]),
          uniqueCount |-> uniqueCountOf(columnOf(data, fieldNames[i]))]]

detectAllFields(data) ==
  IF Len(data) = 0 THEN <<>>
  ELSE LET fieldNames == ObjectKeys(data[1])
       IN  [i \in DOMAIN fieldNames |->
              [name |-> fieldNames[i],
               type |-> detectFieldType(columnOf(data, fieldNames[i]), fieldNames[i]),
               uniqueCount |-> uniqueCountOf(columnOf(data, fieldNames[i]))]]

---------------------------------------------------------------------------
(* AppContext.tsx: the application state and its reducer *)

\* JavaScript null in a field that otherwise holds text
NoValue == "null"

\* encodings: {}
NoEncodings == [c \in {} |-> NoValue]

\* no parsed file waits to be loaded
NoUpload == [pending |-> FALSE, data |-> <<>>]


initialState ==
  [data |-> <<>>,
   fields |-> <<>>,
   encodings |-> NoEncodings,
   filters |-> <<>>,
   markType |-> "auto",
   chartTitle |-> NoValue,
   isLoading |-> TRUE,
   error |-> NoValue,
   projects |-> <<>>,
   currentProjectId |-> NoValue,
   viewMode |-> "chart"]

SET_DATA(st, payload) == [st EXCEPT !.data = payload, !.isLoading = FALSE]

SET_FIELDS(st, payload) == [st EXCEPT !.fields = payload]

ASSIGN_FIELD(st, channel, field) ==
  [st EXCEPT !.encodings =
     [c \in DOMAIN st.encodings \cup {channel} |->
        IF c = channel
        THEN [field |-> field,
              aggregate |-> NoValue,
              timeUnit |-> IF field.type = "temporal" THEN "year" ELSE NoValue,
              sort |-> NoValue]
        ELSE st.encodings[c]]]

REMOVE_FIELD(st, channel) ==
  [st EXCEPT !.encodings = [c \in DOMAIN st.encodings \ {channel} |-> st.encodings[c]]]

\* RESET_FOR_NEW_DATA that keeps the filters and the chart title
RESET_FOR_NEW_DATA_keepsFilters(st) ==
  [st EXCEPT !.data = <<>>,
             !.fields = <<>>,
             !.encodings = NoEncodings,
             !.markType = "auto",
             !.isLoading = TRUE,
             !.error = NoValue]

RESET_FOR_NEW_DATA(st) ==
  [st EXCEPT !.data = <<>>,
             !.fields = <<>>,
             !.encodings = NoEncodings,
             !.filters = <<>>,
             !.markType = "auto",
             !.chartTitle = NoValue,
             !.isLoading = TRUE,
             !.error = NoValue]

\* field.type === 'ordinal' ? 'nominal' : 'ordinal'
toggledType(type) == IF type = "ordinal" THEN "nominal" ELSE "ordinal"

TOGGLE_FIELD_TYPE(st, name) ==
  [st EXCEPT
     !.fields = [i \in DOMAIN st.fields |->
                   IF st.fields[i].name = name
                   THEN [st.fields[i] EXCEPT !.type = toggledType(st.fields[i].type)]
                   ELSE st.fields[i]],
     !.encodings = [c \in DOMAIN st.encodings |->
                      IF st.encodings[c].field.name = name
                      THEN [st.encodings[c] EXCEPT
                              !.field.type = toggledType(st.encodings[c].field.type)]
                      ELSE st.encodings[c]]]

SET_AGGREGATE(st, channel, aggregate) ==
  IF channel \notin DOMAIN st.encodings THEN st
  ELSE [st EXCEPT !.encodings[channel].aggregate = aggregate]

SET_TIME_UNIT(st, channel, timeUnit) ==
  IF channel \notin DOMAIN st.encodings THEN st
  ELSE [st EXCEPT !.encodings[channel].timeUnit = timeUnit]

SET_SORT(st, channel, sort) ==
  IF channel \notin DOMAIN st.encodings THEN st
  ELSE [st EXCEPT !.encodings[channel].sort = sort]

\* CLEAR_ALL that also forgets the fields
CLEAR_ALL_clearsFields(st) ==
  [st EXCEPT !.fields = <<>>, !.encodings = NoEncodings, !.filters = <<>>,
             !.chartTitle = NoValue, !.currentProjectId = NoValue]

CLEAR_ALL(st) ==
  [st EXCEPT !.encodings = NoEncodings, !.filters = <<>>,
             !.chartTitle = NoValue, !.currentProjectId = NoValue]

SET_LOADING(st, payload) == [st EXCEPT !.isLoading = payload]

SET_ERROR(st, payload) == [st EXCEPT !.error = payload, !.isLoading = FALSE]

SET_MARK_TYPE(st, markType) == [st EXCEPT !.markType = markType]

SET_CHART_TITLE(st, title) == [st EXCEPT !.chartTitle = title]

\* ADD_FILTER that appends also when the field has a filter
ADD_FILTER_noDuplicateCheck(st, filter) ==
  [st EXCEPT !.filters = Append(st.filters, filter)]

ADD_FILTER(st, filter) ==
  IF \E i \in DOMAIN st.filters : st.filters[i].fieldName = filter.fieldName THEN st
  ELSE [st EXCEPT !.filters = Append(st.filters, filter)]

UPDATE_FILTER(st, name, value) ==
  [st EXCEPT !.filters = [i \in DOMAIN st.filters |->
                            IF st.filters[i].fieldName = name
                            THEN [st.filters[i] EXCEPT !.value = value]
                            ELSE st.filters[i]]]

REMOVE_FILTER(st, name) ==
  [st EXCEPT !.filters = SelectSeq(st.filters, LAMBDA f : f.fieldName # name)]

CLEAR_FILTERS(st) == [st EXCEPT !.filters = <<>>]

SAVE_PROJECT(st, projects, id) ==
  [st EXCEPT !.projects = projects, !.currentProjectId = id]

LOAD_PROJECT(st, project) ==
  [st EXCEPT !.encodings = project.encodings,
             !.filters = project.filters,
             !.markType = project.markType,
             !.chartTitle = project.chartTitle,
             !.currentProjectId = project.id]

DELETE_PROJECT(st, id) ==
  [st EXCEPT !.projects = SelectSeq(st.projects, LAMBDA p : p.id # id),
             !.currentProjectId = IF st.currentProjectId = id THEN NoValue
                                  ELSE st.currentProjectId]

SET_PROJECTS(st, projects) == [st EXCEPT !.projects = projects]

SET_VIEW_MODE(st, mode) == [st EXCEPT !.viewMode = mode]

\* the reducer: an action is a record with its type and its arguments
appReducer(st, action) ==
  CASE action.type = "SET_DATA" -> SET_DATA(st, action.payload)
    [] action.type = "SET_FIELDS" -> SET_FIELDS(st, action.payload)
    [] action.type = "ASSIGN_FIELD" -> ASSIGN_FIELD(st, action.channel, action.field)
    [] action.type = "REMOVE_FIELD" -> REMOVE_FIELD(st, action.channel)
    [] action.type = "SET_AGGREGATE" -> SET_AGGREGATE(st, action.channel, action.aggregate)
    [] action.type = "SET_TIME_UNIT" -> SET_TIME_UNIT(st, action.channel, action.timeUnit)
    [] action.type = "CLEAR_ALL" -> CLEAR_ALL(st)
    [] action.type = "SET_LOADING" -> SET_LOADING(st, action.payload)
    [] action.type = "SET_ERROR" -> SET_ERROR(st, action.payload)
    [] action.type = "TOGGLE_FIELD_TYPE" -> TOGGLE_FIELD_TYPE(st, action.fieldName)
    [] action.type = "RESET_FOR_NEW_DATA" -> RESET_FOR_NEW_DATA(st)
    [] action.type = "SET_MARK_TYPE" -> SET_MARK_TYPE(st, action.markType)
    [] action.type = "SET_CHART_TITLE" -> SET_CHART_TITLE(st, action.title)
    [] action.type = "SET_SORT" -> SET_SORT(st, action.channel, action.sort)
    [] action.type = "ADD_FILTER" -> ADD_FILTER(st, action.filter)
    [] action.type = "UPDATE_FILTER" -> UPDATE_FILTER(st, action.fieldName, action.value)
    [] action.type = "REMOVE_FILTER" -> REMOVE_FILTER(st, action.fieldName)
    [] action.type = "CLEAR_FILTERS" -> CLEAR_FILTERS(st)
    [] action.type = "SAVE_PROJECT" -> SAVE_PROJECT(st, action.projects, action.id)
    [] action.type = "LOAD_PROJECT" -> LOAD_PROJECT(st, action.project)
    [] action.type = "DELETE_PROJECT" -> DELETE_PROJECT(st, action.id)
    [] action.type = "SET_PROJECTS" -> SET_PROJECTS(st, action.projects)
    [] action.type = "SET_VIEW_MODE" -> SET_VIEW_MODE(st, action.mode)
    [] OTHER -> st

---------------------------------------------------------------------------
(* fileParser: parseFile turns a picked file into rows or into an error *)

MAX_FILE_SIZE == 10 * 1024 * 1024
MAX_ROWS == 100000

\* a file is its name, its size in bytes and its content.  The content is
\* what the reading library finds in it: kind "rows" for a table or an
\* array, whose rows follow; "malformed" for text the library rejects
\* (Papa reports errors, JSON.parse or XLSX.read throws); "notArray" for
\* JSON that is no array; "noSheets" for a workbook without sheets.
\* A row is known by its number in the source, and an array of rows by the
\* run of row numbers it holds: the rows from, from + 1, ... , len of them;
\* head tells whether its first item is an object or some other JSON value
\* (a number, a text, null).
RowsOf(n) == [from |-> 1, len |-> n, head |-> "object"]
NoRows == RowsOf(0)
NoFile == [name |-> <<>>, size |-> 0, kind |-> "none", rows |-> NoRows]
NoResult ==
  [ok |-> FALSE, type |-> "none", data |-> NoRows, fileName |-> <<>>, rowCount |-> 0]

ParseError(type) ==
  [ok |-> FALSE, type |-> type, data |-> NoRows, fileName |-> <<>>, rowCount |-> 0]
FileUploadResult(data, fileName, rowCount) ==
  [ok |-> TRUE, type |-> "none", data |-> data, fileName |-> fileName, rowCount |-> rowCount]

\* file.name.split('.').pop()?.toLowerCase()
RECURSIVE LastSegment(_)
LastSegment(name) ==
  IF \A i \in DOMAIN name : name[i] # "." THEN name
  ELSE LastSegment(Tail(name))

getFileType(f) ==
  LET extension == ToLower(LastSegment(f.name))
  IN  IF extension = <<"c", "s", "v">> THEN "csv"
      ELSE IF extension = <<"j", "s", "o", "n">> THEN "json"
      ELSE IF extension = <<"x", "l", "s", "x">> THEN "xlsx"
      ELSE IF extension = <<"x", "l", "s">> THEN "xls"
      ELSE "null"

\* array.length and array.slice(0, n)
Length(rows) == rows.len
Slice(rows, n) == [rows EXCEPT !.len = IF rows.len < n THEN rows.len ELSE n]

\* Papa.parse(file, {header, dynamicTyping, skipEmptyLines, preview}):
\* at most preview rows are parsed, from the first on
PapaParse(f, preview) ==
  [errors |-> f.kind = "malformed", data |-> Slice(f.rows, preview)]

parseCSV(f) ==
  LET results == PapaParse(f, MAX_ROWS)
      data == results.data
  IN  IF results.errors THEN ParseError("PARSE_ERROR")
      ELSE IF Length(data) = 0 THEN ParseError("EMPTY_FILE")
      ELSE FileUploadResult(data, f.name, Length(data))

\* parseJSON that returns the whole array
parseJSON_noSlice(f) ==
  IF f.kind = "malformed" THEN ParseError("PARSE_ERROR")
  ELSE IF f.kind = "notArray" THEN ParseError("INVALID_FORMAT")
  ELSE IF Length(f.rows) = 0 THEN ParseError("EMPTY_FILE")
  ELSE IF f.rows.head # "object" THEN ParseError("INVALID_FORMAT")
  ELSE FileUploadResult(f.rows, f.name, Length(f.rows))

parseJSON(f) ==
  IF f.kind = "malformed" THEN ParseError("PARSE_ERROR")
  ELSE IF f.kind = "notArray" THEN ParseError("INVALID_FORMAT")
  ELSE LET parsed == f.rows
       IN  IF Length(parsed) = 0 THEN ParseError("EMPTY_FILE")
           ELSE IF parsed.head # "object" THEN ParseError("INVALID_FORMAT")
           ELSE LET data == Slice(parsed, MAX_ROWS)
                IN  FileUploadResult(data, f.name, Length(data))

\* parseExcel that counts the rows of the sheet
parseExcel_countsSheetRows(f) ==
  IF f.kind = "malformed" THEN ParseError("PARSE_ERROR")
  ELSE IF f.kind = "noSheets" THEN ParseError("EMPTY_FILE")
  ELSE IF Length(f.rows) = 0 THEN ParseError("EMPTY_FILE")
  ELSE FileUploadResult(Slice(f.rows, MAX_ROWS), f.name, Length(f.rows))

\* XLSX.read throws on a file it cannot read; parseFile catches it
parseExcel(f) ==
  IF f.kind = "malformed" THEN ParseError("PARSE_ERROR")
  ELSE IF f.kind = "noSheets" THEN ParseError("EMPTY_FILE")
  ELSE LET data == f.rows
       IN  IF Length(data) = 0 THEN ParseError("EMPTY_FILE")
           ELSE FileUploadResult(Slice(data, MAX_ROWS), f.name,
                                 IF Length(data) < MAX_ROWS THEN Length(data) ELSE MAX_ROWS)

parseFile(f) ==
  IF f.size > MAX_FILE_SIZE THEN ParseError("TOO_LARGE")
  ELSE LET fileType == getFileType(f)
       IN  CASE fileType = "null" -> ParseError("INVALID_FORMAT")
             [] fileType = "csv" -> parseCSV(f)
             [] fileType = "json" -> parseJSON(f)
             [] fileType \in {"xlsx", "xls"} -> parseExcel(f)

---------------------------------------------------------------------------
(* localStorage *)

\* localStorage maps keys to texts; NoItem is the null that getItem returns
\* for a key that has no item
emptyStorage == [k \in {} |-> <<>>]
NoItem == <<>>

getItem(st, key) == IF key \in DOMAIN st THEN st[key] ELSE NoItem
setItem(st, key, text) ==
  [k \in DOMAIN st \cup {key} |-> IF k = key THEN text ELSE st[k]]
removeItem(st, key) == [k \in DOMAIN st \ {key} |-> st[k]]

\* JSON text is kept as the value it denotes, marked as text; the values
\* stored here hold nothing that JSON cannot carry
JSONstringify(v) == <<"json", v>>
JSONparse(text) == text[2]

NoCall == [op |-> "none"]

FreshBrowser ==
  /\ file = NoFile
  /\ parseResult = NoResult
  /\ storage = emptyStorage
  /\ lastCall = NoCall

---------------------------------------------------------------------------
(* persistence: projects, their metadata and the last session in           *)
(* localStorage                                                            *)

STORAGE_KEY_PREFIX == "finnviz_project_"
METADATA_KEY == "finnviz_projects_metadata"
LAST_SESSION_KEY == "finnviz_last_session"

ProjectKey(id) == STORAGE_KEY_PREFIX \o id

getProjectsMetadata(st) ==
  LET data == getItem(st, METADATA_KEY)
  IN  IF data # NoItem THEN JSONparse(data) ELSE <<>>

MetadataIdsOf(st) == {getProjectsMetadata(st)[i].id : i \in DOMAIN getProjectsMetadata(st)}

\* metadata.findIndex(m => m.id === id), 0 for -1
findIndex(metadata, id) ==
  IF \E i \in DOMAIN metadata : metadata[i].id = id
  THEN CHOOSE i \in DOMAIN metadata :
         /\ metadata[i].id = id
         /\ \A j \in 1..(i - 1) : metadata[j].id # id
  ELSE 0

\* saveProject that always appends the metadata entry
persistence_saveProject_alwaysPush(st, project) ==
  LET stored == setItem(st, ProjectKey(project.id), JSONstringify(project))
      newMeta == [id |-> project.id, name |-> project.name, updatedAt |-> project.updatedAt]
  IN  setItem(stored, METADATA_KEY,
              JSONstringify(Append(getProjectsMetadata(stored), newMeta)))

persistence_saveProject(st, project) ==
  LET stored == setItem(st, ProjectKey(project.id), JSONstringify(project))
      metadata == getProjectsMetadata(stored)
      existingIndex == findIndex(metadata, project.id)
      newMeta == [id |-> project.id, name |-> project.name, updatedAt |-> project.updatedAt]
  IN  setItem(stored, METADATA_KEY,
              JSONstringify(IF existingIndex > 0
                            THEN [metadata EXCEPT ![existingIndex] = newMeta]
                            ELSE Append(metadata, newMeta)))

\* null is NoItem
getProject(st, id) ==
  LET data == getItem(st, ProjectKey(id))
  IN  IF data # NoItem THEN JSONparse(data) ELSE NoItem

\* deleteProject that leaves the metadata alone
persistence_deleteProject_keepsMetadata(st, id) == removeItem(st, ProjectKey(id))

persistence_deleteProject(st, id) ==
  LET removed == removeItem(st, ProjectKey(id))
      metadata == SelectSeq(getProjectsMetadata(removed), LAMBDA m : m.id # id)
  IN  setItem(removed, METADATA_KEY, JSONstringify(metadata))

saveLastSession(st, session) == setItem(st, LAST_SESSION_KEY, JSONstringify(session))

getLastSession(st) ==
  LET data == getItem(st, LAST_SESSION_KEY)
  IN  IF data # NoItem THEN JSONparse(data) ELSE NoItem

---------------------------------------------------------------------------
(* AppProvider: the defaults of a new filter *)

\* String(val) of a text or of a number n/d
RECURSIVE DigitsOf(_)
DigitsOf(n) ==
  IF n < 10 THEN <<DigitChars[n + 1]>>
  ELSE Append(DigitsOf(n \div 10), DigitChars[(n % 10) + 1])

RECURSIVE FractionDigits(_, _)
FractionDigits(n, d) ==
  IF d = 1 THEN <<>>
  ELSE Append(FractionDigits(n \div 10, d \div 10), DigitChars[(n % 10) + 1])

String(val) ==
  IF val.t = "string" THEN val.s
  ELSE IF val.d = 0 THEN <<"N", "a", "N">>
  ELSE LET abs == IF val.n < 0 THEN -val.n ELSE val.n
       IN  (IF val.n < 0 THEN <<"-">> ELSE <<>>)
           \o DigitsOf(abs \div val.d)
           \o (IF val.d = 1 THEN <<>> ELSE <<".">> \o FractionDigits(abs % val.d, val.d))

\* the characters of the model in the order of their UTF-16 code units
CodeUnitOrder ==
  <<" ", "-", ".", "/">> \o DigitChars \o <<":">> \o UpperChars \o <<"_">> \o LowerChars
CodeUnit(c) == CHOOSE i \in DOMAIN CodeUnitOrder : CodeUnitOrder[i] = c

\* a < b as Array.prototype.sort() without comparator orders texts
TextLess(a, b) ==
  \E i \in 1..(Len(b)) :
    /\ \A j \in 1..(i - 1) : j <= Len(a) /\ a[j] = b[j]
    /\ (i > Len(a) \/ (i - 1 < Len(a) /\ CodeUnit(a[i]) < CodeUnit(b[i])))

\* Array.from(set).sort()
SortTexts(set) ==
  [k \in 1..Cardinality(set) |->
     CHOOSE x \in set : Cardinality({y \in set : TextLess(y, x)}) = k - 1]

getUniqueValues(st, name) ==
  SortTexts({String(Get(st.data[r], name)) :
               r \in {q \in DOMAIN st.data :
                        Get(st.data[q], name) \notin {Null, Undefined}}})

getFieldRange(st, name) ==
  LET numbers == SelectSeq(columnOf(st.data, name),
                           LAMBDA v : typeof(v) = "number" /\ ~isNaN(v))
  IN  IF Len(numbers) = 0 THEN [min |-> IntNum(0), max |-> IntNum(0)]
      ELSE [min |-> MathMin(numbers), max |-> MathMax(numbers)]

\* the FilterConfig that addFilter(field) dispatches
newFilter(st, field) ==
  [fieldName |-> field.name,
   fieldType |-> field.type,
   filterType |-> IF field.type = "quantitative" THEN "range"
                  ELSE IF field.type = "temporal" THEN "date-range"
                  ELSE "selection",
   value |-> IF field.type = "quantitative" THEN getFieldRange(st, field.name)
             ELSE IF field.type = "temporal" THEN [min |-> Null, max |-> Null]
             ELSE [selected |-> getUniqueValues(st, field.name),
                   available |-> getUniqueValues(st, field.name)]]

---------------------------------------------------------------------------
(* AppProvider: the effects around the reducer *)

\* what the auto-save effect hands to saveLastSession
sessionOf(st) ==
  [id |-> IF st.currentProjectId = NoValue THEN "temp-session" ELSE st.currentProjectId,
   encodings |-> st.encodings,
   filters |-> st.filters,
   markType |-> st.markType,
   chartTitle |-> st.chartTitle]

\* The auto-save effect runs after a render in which one of its
\* dependencies, state.encodings, state.filters, state.markType and
\* state.chartTitle, is no longer the same object or the same text.  The
\* reducer builds a new encodings object or filters array in the cases
\* below, also when the content is the same as before.
dependenciesChange(st, action) ==
  CASE action.type \in {"ASSIGN_FIELD", "REMOVE_FIELD", "CLEAR_ALL", "TOGGLE_FIELD_TYPE",
                        "RESET_FOR_NEW_DATA", "UPDATE_FILTER", "REMOVE_FILTER",
                        "CLEAR_FILTERS", "LOAD_PROJECT"} -> TRUE
    [] action.type \in {"SET_AGGREGATE", "SET_TIME_UNIT", "SET_SORT"} ->
         action.channel \in DOMAIN st.encodings
    [] action.type = "ADD_FILTER" ->
         \A i \in DOMAIN st.filters : st.filters[i].fieldName # action.filter.fieldName
    [] action.type = "SET_MARK_TYPE" -> action.markType # st.markType
    [] action.type = "SET_CHART_TITLE" -> action.title # st.chartTitle
    [] OTHER -> FALSE

\* localStorage after the effect, given the state that was rendered
autoSave(stg, changed, rendered) ==
  IF changed THEN saveLastSession(stg, sessionOf(rendered)) ELSE stg

\* a handler that dispatches one action; the auto-save effect follows
handle(action) ==
  /\ state' = appReducer(state, action)
  /\ storage' = autoSave(storage, dependenciesChange(state, action),
                         appReducer(state, action))
  /\ UNCHANGED <<values, fieldName, result, pc, other, otherResult, lastIndex, upload>>
  /\ UNCHANGED <<file, parseResult, lastCall>>

\* an array item that is null, where a row object is expected
NullRow == <<[key |-> Null, value |-> Null]>>

\* detectAllFields throws a TypeError: Object.keys(null) for the first row,
\* row[name] for a later one
detectAllFieldsThrows(data) ==
  /\ Len(data) > 0
  /\ \/ data[1] = NullRow
     \/ Len(data[1]) > 0 /\ \E r \in DOMAIN data : data[r] = NullRow

\* the state after the three dispatches of loadData(data)
loadedWith(st, data) ==
  IF detectAllFieldsThrows(data)
  THEN SET_ERROR(SET_DATA(RESET_FOR_NEW_DATA(st), data), "Failed to process uploaded data")
  ELSE SET_FIELDS(SET_DATA(RESET_FOR_NEW_DATA(st), data), detectAllFields(data))
---------------------------------------------------------------------------
(* The columns and field names the model classifies *)

\* the longest column
MaxLen == 5

TxtDateYMD == Str(<<"2", "0", "2", "3", "-", "0", "1", "-", "1", "5">>)
TxtDateISO == Str(<<"2", "0", "2", "3", "-", "0", "1", "-", "1", "5", "T", "1", "0", ":", "3", "0", ":", "0", "0", "Z">>)
TxtDateSlash == Str(<<"1", "/", "1", "5", "/", "2", "0", "2", "3">>)
TxtDateDash == Str(<<"0", "1", "-", "1", "5", "-", "2", "3">>)
TxtNotADate == Str(<<"n", "o", "t", "-", "a", "-", "d", "a", "t", "e">>)
TxtYearFirstSlash == Str(<<"2", "0", "2", "3", "/", "0", "1", "/", "1", "5">>)
TxtRed == Str(<<"R", "e", "d">>)
TxtCust001 == Str(<<"C", "U", "S", "T", "-", "0", "0", "1">>)
TxtCust002 == Str(<<"C", "U", "S", "T", "-", "0", "0", "2">>)
TxtXL == Str(<<"X", "L">>)
TxtLow == Str(<<"L", "o", "w">>)
TxtLowLower == Str(<<"l", "o", "w">>)
TxtMedium == Str(<<"M", "e", "d", "i", "u", "m">>)
TxtHigh == Str(<<"H", "i", "g", "h">>)
TxtGood == Str(<<"G", "o", "o", "d">>)
TxtStronglyAgree == Str(<<"S", "t", "r", "o", "n", "g", "l", "y", " ", "a", "g", "r", "e", "e">>)
TxtFive == Str(<<"5">>)
TxtSixPadded == Str(<<" ", "6", " ">>)
TxtSevenPointFive == Str(<<"7", ".", "5">>)
TxtTwelvePointFive == Str(<<"1", "2", ".", "5">>)
TxtEmpty == Str(<<>>)
TxtSmall == Str(<<"s", "m", "a", "l", "l">>)
TxtXLarge == Str(<<"x", "-", "l", "a", "r", "g", "e">>)
TxtXLargeJoined == Str(<<"x", "l", "a", "r", "g", "e">>)

NameOrderDate == Str(<<"o", "r", "d", "e", "r", "_", "d", "a", "t", "e">>)
NameRating == Str(<<"r", "a", "t", "i", "n", "g">>)
NameCustomerId == Str(<<"c", "u", "s", "t", "o", "m", "e", "r", "_", "i", "d">>)
NamePrice == Str(<<"p", "r", "i", "c", "e">>)

\* each pool is the vocabulary of one family of columns
Pools ==
  { {TxtDateYMD, TxtDateISO, TxtNotADate, IntNum(2020)},
    {TxtDateSlash, TxtDateDash, TxtYearFirstSlash, Null},
    {Null, Undefined, TxtEmpty, IntNum(42)},
    {IntNum(1), IntNum(21), IntNum(22)},
    {IntNum(2), IntNum(102), IntNum(103)},
    {IntNum(9998), IntNum(9999), IntNum(10003)},
    {Num(125, 10), IntNum(5), IntNum(6), TxtTwelvePointFive},
    {TxtFive, IntNum(5), TxtSixPadded, TxtSevenPointFive},
    {TxtXL, TxtLow, TxtGood, TxtStronglyAgree},
    {TxtLow, TxtLowLower, TxtRed},
    {TxtHigh, TxtMedium, IntNum(3)},
    {TxtCust001, TxtCust002, IntNum(7)} }

SeqsUpTo(S, k) == UNION {[1..m -> S] : m \in 0..k}

Columns == UNION {SeqsUpTo(pool, MaxLen) : pool \in Pools}

\* columns of the tests and of the documentation
YearColumn == <<IntNum(2020), IntNum(2021), IntNum(2022), IntNum(2023), IntNum(2024)>>
IdColumn == <<IntNum(1001), IntNum(1002), IntNum(1003), IntNum(1004), IntNum(1005)>>
IdTextColumn ==
  <<Str(<<"1", "0", "0", "1">>), Str(<<"1", "0", "0", "2">>), Str(<<"1", "0", "0", "3">>),
    Str(<<"1", "0", "0", "4">>), Str(<<"1", "0", "0", "5">>)>>
RatingColumn ==
  <<IntNum(1), IntNum(2), IntNum(3), IntNum(4), IntNum(5),
    IntNum(3), IntNum(4), IntNum(2), IntNum(5), IntNum(1)>>
SmallRangeColumn ==
  <<IntNum(1), IntNum(2), IntNum(3), IntNum(1), IntNum(2), IntNum(3),
    IntNum(2), IntNum(1), IntNum(3)>>
RatingScaleColumn == <<IntNum(1), IntNum(2), IntNum(3), IntNum(4), IntNum(5)>>

SizeLongFormColumn == <<TxtSmall, TxtXLarge, TxtXLarge>>
SizeJoinedColumn == <<TxtSmall, TxtXLargeJoined, TxtXLargeJoined>>

ExampleColumns ==
  {YearColumn, IdColumn, IdTextColumn, RatingColumn, SmallRangeColumn, RatingScaleColumn,
   SizeLongFormColumn, SizeJoinedColumn}

\* fieldName is optional: undefined when the caller passes none; a column
\* header may also be the empty text
FieldNames == {Undefined, TxtEmpty, NameCustomerId, NamePrice}

FieldTypes == {"quantitative", "nominal", "ordinal", "temporal"}

---------------------------------------------------------------------------
(* The state machine: a column and its name are given, Detect classifies *)

Init ==
  /\ values \in Columns \cup ExampleColumns
  /\ fieldName \in FieldNames
  /\ result = "none"
  /\ pc = "ready"
  /\ other = <<>>
  /\ otherResult = "none"
  /\ state = initialState
  /\ upload = NoUpload
  /\ lastIndex = NoMatchYet
  /\ FreshBrowser

Detect ==
  /\ pc = "ready"
  /\ result' = detectFieldType(values, fieldName)
  /\ pc' = "done"
  /\ UNCHANGED <<values, fieldName, other, otherResult, state, upload, lastIndex>>
  /\ UNCHANGED browserVars

Next == Detect

Spec == Init /\ [][Next]_vars

---------------------------------------------------------------------------
(* Numeric columns under field names with and without the endings of      *)
(* identifiers                                                             *)

NamePrefixes ==
  {<<>>, <<"x">>, <<"a", "p", "i">>, <<"h", "o", "t">>, <<"o", "r", "d", "e", "r", "_">>}

NameEndings ==
  {<<>>, <<"i", "d">>, <<"I", "D">>, <<"_", "i", "d">>, <<"i", "d", "x">>,
   <<"c", "o", "d", "e">>, <<"C", "o", "d", "e">>, <<"c", "o", "d", "e", "s">>,
   <<"k", "e", "y">>, <<"K", "E", "Y">>, <<"_", "k", "e", "y">>, <<"k", "e", "y", "s">>,
   <<"n", "a", "m", "e">>}

NamedFieldNames == {Str(prefix \o ending) : prefix \in NamePrefixes, ending \in NameEndings}

NamedColumns == {<<Num(125, 10)>>, <<IntNum(1), IntNum(3)>>, <<IntNum(5), IntNum(5)>>}

InitNames ==
  /\ values \in NamedColumns
  /\ fieldName \in NamedFieldNames
  /\ result = "none"
  /\ pc = "ready"
  /\ other = <<>>
  /\ otherResult = "none"
  /\ state = initialState
  /\ upload = NoUpload
  /\ lastIndex = NoMatchYet
  /\ FreshBrowser

SpecNames == InitNames /\ [][Next]_vars

---------------------------------------------------------------------------
(* Two columns longer than the sample, classified one after the other      *)
(* under the same name                                                     *)

\* the most values that follow the run of equal values in a long column
MaxTail == 2

Repeat(v, n) == [i \in 1..n |-> v]

\* a long column: absent values, then SAMPLE_SIZE - 1 or SAMPLE_SIZE times the
\* number 5, then a tail of text and absent values
LongColumns ==
  { lead \o Repeat(IntNum(5), n) \o tail :
      lead \in SeqsUpTo({Null}, 1),
      n \in {SAMPLE_SIZE - 1, SAMPLE_SIZE},
      tail \in SeqsUpTo({TxtRed, TxtEmpty}, MaxTail) }

InitSample ==
  /\ values \in LongColumns
  /\ other \in LongColumns
  /\ fieldName \in {Undefined, NameCustomerId}
  /\ result = "none"
  /\ pc = "ready"
  /\ otherResult = "none"
  /\ state = initialState
  /\ upload = NoUpload
  /\ lastIndex = NoMatchYet
  /\ FreshBrowser

DetectOther ==
  /\ pc = "done"
  /\ otherResult = "none"
  /\ otherResult' = detectFieldType(other, fieldName)
  /\ UNCHANGED <<values, fieldName, result, pc, other, state, upload, lastIndex>>
  /\ UNCHANGED browserVars

NextSample == Detect \/ DetectOther

SpecSample == InitSample /\ [][NextSample]_vars

---------------------------------------------------------------------------
(* The application: datasets are loaded, fields are toggled and assigned   *)
(* to encoding channels                                                    *)

\* the most rows of a dataset
MaxRows == 2

DataKeys == {NameCustomerId, NamePrice}
DataCells == {TxtDateYMD, IntNum(1), TxtEmpty, Null}

\* the key lists of a row: no key twice
KeyLists ==
  {ks \in SeqsUpTo(DataKeys, Cardinality(DataKeys)) :
     \A i, j \in DOMAIN ks : i # j => ks[i] # ks[j]}

Rows ==
  UNION {{[i \in DOMAIN ks |-> [key |-> ks[i], value |-> cells[i]]] :
            cells \in [DOMAIN ks -> DataCells]} : ks \in KeyLists}

Datasets == SeqsUpTo(Rows, MaxRows)

\* nothing is being classified column by column
NoDetection ==
  /\ values = <<>>
  /\ fieldName = Undefined
  /\ result = "none"
  /\ pc = "idle"
  /\ other = <<>>
  /\ otherResult = "none"
  /\ lastIndex = NoMatchYet
  /\ FreshBrowser

\* a file has been parsed into a dataset
InitLoad ==
  /\ state = initialState
  /\ upload \in {[pending |-> TRUE, data |-> data] : data \in Datasets}
  /\ NoDetection

\* loadData(data), called with the dataset parsed from a file
loadData ==
  /\ upload.pending
  /\ state' = loadedWith(state, upload.data)
  /\ storage' = autoSave(storage, TRUE, loadedWith(state, upload.data))
  /\ upload' = NoUpload
  /\ UNCHANGED <<values, fieldName, result, pc, other, otherResult, lastIndex>>
  /\ UNCHANGED <<file, parseResult, lastCall>>

NextLoad == loadData

SpecLoad == InitLoad /\ [][NextLoad]_vars

---------------------------------------------------------------------------
(* The application in use: files are loaded, fields are toggled between    *)
(* ordinal and nominal and assigned to encoding channels                   *)

SalesData ==
  << <<[key |-> NamePrice, value |-> Num(125, 10)],
       [key |-> NameCustomerId, value |-> IntNum(1001)]>> >>

RatingsData ==
  << <<[key |-> NameOrderDate, value |-> TxtDateYMD],
       [key |-> NameRating, value |-> IntNum(1)]>>,
     <<[key |-> NameOrderDate, value |-> TxtDateISO],
       [key |-> NameRating, value |-> IntNum(3)]>> >>

AppDatasets == {<<>>, SalesData, RatingsData}

AppFieldNames == {NamePrice, NameCustomerId, NameOrderDate, NameRating}

Channels == {"x", "y"}

InitApp ==
  /\ state = initialState
  /\ upload = NoUpload
  /\ NoDetection

\* the user picks a file, which is parsed into a dataset
fileParsed ==
  /\ ~upload.pending
  /\ upload' \in {[pending |-> TRUE, data |-> data] : data \in AppDatasets}
  /\ UNCHANGED <<values, fieldName, result, pc, other, otherResult, lastIndex, state>>
  /\ UNCHANGED browserVars

toggleFieldType(name) == handle([type |-> "TOGGLE_FIELD_TYPE", fieldName |-> name])

assignField(channel, field) ==
  handle([type |-> "ASSIGN_FIELD", channel |-> channel, field |-> field])

removeField(channel) == handle([type |-> "REMOVE_FIELD", channel |-> channel])

NextApp ==
  \/ fileParsed
  \/ loadData
  \/ \E name \in AppFieldNames : toggleFieldType(name)
  \/ \E channel \in Channels, field \in Range(state.fields) : assignField(channel, field)
  \/ \E channel \in Channels : removeField(channel)

SpecApp == InitApp /\ [][NextApp]_vars

---------------------------------------------------------------------------
(* Calls of detectFieldType on two columns, in any order and repeated,     *)
(* with the pattern tables they share                                      *)

\* the longest column classified repeatedly
MaxCallLen == 2

CallColumns == SeqsUpTo({TxtDateYMD, TxtLow, TxtHigh, IntNum(5)}, MaxCallLen)

InitCalls ==
  /\ values \in CallColumns
  /\ other \in CallColumns
  /\ fieldName \in {Undefined, NameCustomerId}
  /\ result = "none"
  /\ otherResult = "none"
  /\ pc = "calls"
  /\ lastIndex = NoMatchYet
  /\ FreshBrowser
  /\ state = initialState
  /\ upload = NoUpload

CallOnValues ==
  /\ pc = "calls"
  /\ LET call == detectFieldTypeCall(values, fieldName, lastIndex)
     IN  result' = call.tag /\ lastIndex' = call.tbl
  /\ UNCHANGED <<values, fieldName, pc, other, otherResult, state, upload>>
  /\ UNCHANGED browserVars

CallOnOther ==
  /\ pc = "calls"
  /\ LET call == detectFieldTypeCall(other, fieldName, lastIndex)
     IN  otherResult' = call.tag /\ lastIndex' = call.tbl
  /\ UNCHANGED <<values, fieldName, pc, other, result, state, upload>>
  /\ UNCHANGED browserVars

NextCalls == CallOnValues \/ CallOnOther

SpecCalls == InitCalls /\ [][NextCalls]_vars

---------------------------------------------------------------------------
(* A column and one of its reorderings, both classified under the same name *)

MaxOrderLen == 4

OrderPools ==
  { {IntNum(1), IntNum(2), IntNum(3), Null},
    {IntNum(9998), IntNum(9999), IntNum(10003), TxtFive},
    {TxtDateYMD, TxtNotADate, IntNum(2020), TxtEmpty},
    {TxtLow, TxtHigh, TxtRed, Undefined} }

OrderColumns == UNION {SeqsUpTo(pool, MaxOrderLen) : pool \in OrderPools}

\* every array holding the same values the same number of times
Reorderings(seq) ==
  {[i \in 1..Len(seq) |-> seq[p[i]]] : p \in Permutations(1..Len(seq))}

InitOrder ==
  /\ values \in OrderColumns
  /\ other \in Reorderings(values)
  /\ fieldName \in {Undefined, NameCustomerId}
  /\ result = "none"
  /\ pc = "ready"
  /\ otherResult = "none"
  /\ state = initialState
  /\ upload = NoUpload
  /\ lastIndex = NoMatchYet
  /\ FreshBrowser

SpecOrder == InitOrder /\ [][NextSample]_vars

---------------------------------------------------------------------------
(* A file is picked and parsed *)

NameDataCsv == <<"d", "a", "t", "a", ".", "c", "s", "v">>
NameDataCsvUpper == <<"D", "A", "T", "A", ".", "C", "S", "V">>
NameDataJson == <<"m", "y", ".", "d", "a", "t", "a", ".", "j", "s", "o", "n">>
NameDataXlsx == <<"d", "a", "t", "a", ".", "x", "l", "s", "x">>
NameDataXls == <<"d", "a", "t", "a", ".", "x", "l", "s">>
NameDataTxt == <<"d", "a", "t", "a", ".", "t", "x", "t">>
NameNoExtension == <<"c", "s", "v", "f", "i", "l", "e">>

FileSizes == {1024, MAX_FILE_SIZE, MAX_FILE_SIZE + 1}

RowCounts == {0, 1, 2, MAX_ROWS - 1, MAX_ROWS, MAX_ROWS + 1}

\* the rows of a source, in order
ObjectRows == {RowsOf(n) : n \in RowCounts}
\* arrays whose first item is no object
ItemRows == {[RowsOf(n) EXCEPT !.head = "other"] : n \in RowCounts \ {0}}

Files ==
  [name : {NameDataCsv, NameDataCsvUpper}, size : FileSizes,
   kind : {"rows", "malformed"}, rows : ObjectRows]
  \cup [name : {NameDataJson}, size : FileSizes,
        kind : {"rows"}, rows : ObjectRows \cup ItemRows]
  \cup [name : {NameDataJson}, size : FileSizes,
        kind : {"malformed", "notArray"}, rows : {NoRows}]
  \cup [name : {NameDataXlsx, NameDataXls}, size : FileSizes,
        kind : {"rows"}, rows : ObjectRows]
  \cup [name : {NameDataXlsx, NameDataXls}, size : FileSizes,
        kind : {"malformed", "noSheets"}, rows : {NoRows}]
  \cup [name : {NameDataTxt, NameNoExtension}, size : FileSizes,
        kind : {"rows"}, rows : {RowsOf(2)}]

InitParse ==
  /\ file \in Files
  /\ parseResult = NoResult
  /\ storage = emptyStorage
  /\ lastCall = NoCall
  /\ state = initialState
  /\ upload = NoUpload
  /\ values = <<>>
  /\ fieldName = Undefined
  /\ result = "none"
  /\ pc = "picked"
  /\ other = <<>>
  /\ otherResult = "none"
  /\ lastIndex = NoMatchYet

\* await parseFile(file)
ParseFileCall ==
  /\ pc = "picked"
  /\ parseResult' = parseFile(file)
  /\ pc' = "parsed"
  /\ UNCHANGED <<values, fieldName, result, other, otherResult, state, upload, lastIndex>>
  /\ UNCHANGED <<file, storage, lastCall>>

NextParse == ParseFileCall

SpecParse == InitParse /\ [][NextParse]_vars

---------------------------------------------------------------------------
(* The persistence module on its own: projects are saved and deleted *)

MaxTime == 2

StoreIds == {"p1", "p2", "p3"}
StoreNames == {"Sales", "Trend"}
StoreProjects ==
  [id : StoreIds, name : StoreNames, updatedAt : 1..MaxTime,
   encodings : {NoEncodings}, filters : {<<>>}, markType : {"auto"},
   chartTitle : {NoValue}]

InitStore ==
  /\ storage = emptyStorage
  /\ lastCall = NoCall
  /\ file = NoFile
  /\ parseResult = NoResult
  /\ state = initialState
  /\ upload = NoUpload
  /\ values = <<>>
  /\ fieldName = Undefined
  /\ result = "none"
  /\ pc = "store"
  /\ other = <<>>
  /\ otherResult = "none"
  /\ lastIndex = NoMatchYet

storeVars ==
  <<values, fieldName, result, pc, other, otherResult, state, upload, lastIndex,
    file, parseResult>>

SaveProjectCall(project) ==
  /\ pc = "store"
  /\ storage' = persistence_saveProject(storage, project)
  /\ lastCall' = [op |-> "saveProject", arg |-> project]
  /\ UNCHANGED storeVars

DeleteProjectCall(id) ==
  /\ pc = "store"
  /\ storage' = persistence_deleteProject(storage, id)
  /\ lastCall' = [op |-> "deleteProject", arg |-> id]
  /\ UNCHANGED storeVars

NextStore ==
  \/ \E project \in StoreProjects : SaveProjectCall(project)
  \/ \E id \in StoreIds : DeleteProjectCall(id)

SpecStore == InitStore /\ [][NextStore]_vars

---------------------------------------------------------------------------
(* The reducer on its own: one action is dispatched on a state that the    *)
(* application can be in                                                   *)

\* the state after loadData(data)
LoadedState(data) ==
  SET_FIELDS(SET_DATA(RESET_FOR_NEW_DATA(initialState), data), detectAllFields(data))

\* field number k of the state, if there is one, has its type toggled
ToggledState(st, k) ==
  IF k \in DOMAIN st.fields THEN TOGGLE_FIELD_TYPE(st, st.fields[k].name) ELSE st
\* ... is assigned to the channel x
EncodedState(st, k) ==
  IF k \in DOMAIN st.fields THEN ASSIGN_FIELD(st, "x", st.fields[k]) ELSE st
\* ... gets a filter
FilteredState(st, k) ==
  IF k \in DOMAIN st.fields THEN ADD_FILTER(st, newFilter(st, st.fields[k])) ELSE st

MaxFieldIndex == 2

ReducerStates ==
  {initialState} \cup
  {FilteredState(EncodedState(ToggledState(LoadedState(data), t), e), f) :
     data \in AppDatasets, t \in 0..MaxFieldIndex, e \in 0..MaxFieldIndex,
     f \in 0..MaxFieldIndex}

\* the SavedProject that saveProject(name) builds from a state
projectOf(st, id, name, updatedAt) ==
  [id |-> id, name |-> name, updatedAt |-> updatedAt,
   encodings |-> st.encodings, filters |-> st.filters,
   markType |-> st.markType, chartTitle |-> st.chartTitle]

ProjectIds == {"p1", "p2"}
ReducerProjects ==
  {projectOf(EncodedState(LoadedState(RatingsData), e), id, "Sales", 1) :
     e \in 0..MaxFieldIndex, id \in ProjectIds}
ReducerMetadata ==
  {<<>>, <<[id |-> "p1", name |-> "Sales", updatedAt |-> 1]>>,
   <<[id |-> "p2", name |-> "Trend", updatedAt |-> 1],
     [id |-> "p1", name |-> "Sales", updatedAt |-> 1]>>}
ReducerFilterValues ==
  {[min |-> IntNum(1), max |-> IntNum(2)], [selected |-> <<>>, available |-> <<>>]}

InitReducer ==
  /\ state \in ReducerStates
  /\ pc = "reduce"
  /\ upload = NoUpload
  /\ values = <<>>
  /\ fieldName = Undefined
  /\ result = "none"
  /\ other = <<>>
  /\ otherResult = "none"
  /\ lastIndex = NoMatchYet
  /\ FreshBrowser

\* dispatch(action)
dispatch(action) ==
  /\ pc = "reduce"
  /\ state' = appReducer(state, action)
  /\ lastCall' = [op |-> "dispatch", arg |-> action]
  /\ pc' = "reduced"
  /\ UNCHANGED <<values, fieldName, result, other, otherResult, upload, lastIndex>>
  /\ UNCHANGED <<file, parseResult, storage>>

NextReducer ==
  \/ \E data \in AppDatasets : dispatch([type |-> "SET_DATA", payload |-> data])
  \/ \E data \in AppDatasets :
        dispatch([type |-> "SET_FIELDS", payload |-> detectAllFields(data)])
  \/ \E channel \in Channels, field \in Range(state.fields) :
        dispatch([type |-> "ASSIGN_FIELD", channel |-> channel, field |-> field])
  \/ \E channel \in Channels : dispatch([type |-> "REMOVE_FIELD", channel |-> channel])
  \/ \E channel \in Channels :
        dispatch([type |-> "SET_AGGREGATE", channel |-> channel, aggregate |-> "sum"])
  \/ \E channel \in Channels :
        dispatch([type |-> "SET_TIME_UNIT", channel |-> channel, timeUnit |-> "month"])
  \/ dispatch([type |-> "CLEAR_ALL"])
  \/ \E loading \in BOOLEAN : dispatch([type |-> "SET_LOADING", payload |-> loading])
  \/ dispatch([type |-> "SET_ERROR", payload |-> "Failed to load data"])
  \/ \E name \in AppFieldNames : dispatch([type |-> "TOGGLE_FIELD_TYPE", fieldName |-> name])
  \/ dispatch([type |-> "RESET_FOR_NEW_DATA"])
  \/ \E markType \in {"auto", "bar"} :
        dispatch([type |-> "SET_MARK_TYPE", markType |-> markType])
  \/ \E title \in {NoValue, "Sales by year"} :
        dispatch([type |-> "SET_CHART_TITLE", title |-> title])
  \/ \E channel \in Channels :
        dispatch([type |-> "SET_SORT", channel |-> channel, sort |-> "ascending"])
  \/ \E field \in Range(state.fields) :
        dispatch([type |-> "ADD_FILTER", filter |-> newFilter(state, field)])
  \/ \E name \in AppFieldNames, value \in ReducerFilterValues :
        dispatch([type |-> "UPDATE_FILTER", fieldName |-> name, value |-> value])
  \/ \E name \in AppFieldNames : dispatch([type |-> "REMOVE_FILTER", fieldName |-> name])
  \/ dispatch([type |-> "CLEAR_FILTERS"])
  \/ \E projects \in ReducerMetadata \ {<<>>} :
        dispatch([type |-> "SAVE_PROJECT", name |-> "Sales", id |-> "p1",
                  projects |-> projects])
  \/ \E project \in ReducerProjects : dispatch([type |-> "LOAD_PROJECT", project |-> project])
  \/ \E id \in ProjectIds : dispatch([type |-> "DELETE_PROJECT", id |-> id])
  \/ \E projects \in ReducerMetadata :
        dispatch([type |-> "SET_PROJECTS", projects |-> projects])
  \/ \E mode \in {"chart", "table"} : dispatch([type |-> "SET_VIEW_MODE", mode |-> mode])

SpecReducer == InitReducer /\ [][NextReducer]_vars

---------------------------------------------------------------------------
(* The application with its projects and its last session in localStorage: *)
(* the page is loaded, used, and loaded again                              *)

\* superstore.json, the dataset that is bundled with the application
DefaultData == SalesData

RestoredSessionTime == 1

\* the state after the effects of the first render, given localStorage
mounted(stg) ==
  LET withData == SET_FIELDS(SET_DATA(initialState, DefaultData), detectAllFields(DefaultData))
      withProjects == SET_PROJECTS(withData, getProjectsMetadata(stg))
      lastSession == getLastSession(stg)
  IN  IF lastSession # NoItem
      THEN LOAD_PROJECT(withProjects,
                        [id |-> lastSession.id, name |-> "Restored Session",
                         updatedAt |-> RestoredSessionTime,
                         encodings |-> lastSession.encodings,
                         filters |-> lastSession.filters,
                         markType |-> lastSession.markType,
                         chartTitle |-> lastSession.chartTitle])
      ELSE withProjects

\* the handlers and effects below leave these alone
sessionFrame ==
  /\ UNCHANGED <<values, fieldName, result, pc, other, otherResult, lastIndex, upload>>
  /\ UNCHANGED <<file, parseResult, lastCall>>

\* the page is loaded again: the state starts from initialState, the effects
\* of the first render load the bundled data, the projects and the last
\* session, and the auto-save effect runs once more if a session was loaded
reload ==
  /\ state' = mounted(storage)
  /\ storage' = autoSave(storage, getLastSession(storage) # NoItem, mounted(storage))
  /\ sessionFrame

\* the first load of the page, with nothing in localStorage
InitSession ==
  /\ state = mounted(emptyStorage)
  /\ upload = NoUpload
  /\ NoDetection
  /\ FreshBrowser

\* loadData(data) with the rows of an uploaded file
uploadData(data) ==
  /\ state' = loadedWith(state, data)
  /\ storage' = autoSave(storage, TRUE, loadedWith(state, data))
  /\ sessionFrame

addFilter(field) == handle([type |-> "ADD_FILTER", filter |-> newFilter(state, field)])

updateFilter(name, value) ==
  handle([type |-> "UPDATE_FILTER", fieldName |-> name, value |-> value])

removeFilter(name) == handle([type |-> "REMOVE_FILTER", fieldName |-> name])

clearFilters == handle([type |-> "CLEAR_FILTERS"])

clearAll == handle([type |-> "CLEAR_ALL"])

setMarkType(markType) == handle([type |-> "SET_MARK_TYPE", markType |-> markType])

\* every id that the state or localStorage holds
KnownIds ==
  {state.currentProjectId} \cup {p.id : p \in Range(state.projects)}
    \cup MetadataIdsOf(storage)
    \cup (IF getLastSession(storage) # NoItem THEN {getLastSession(storage).id} ELSE {})

\* saveProject(name), where uuid is the result of crypto.randomUUID() and
\* now that of Date.now()
saveProject(name, uuid, now) ==
  LET id == IF state.currentProjectId # NoValue /\ state.currentProjectId # "temp-session"
            THEN state.currentProjectId
            ELSE uuid
      saved == persistence_saveProject(storage, projectOf(state, id, name, now))
  IN  /\ uuid \notin KnownIds
      /\ storage' = saved
      /\ state' = SAVE_PROJECT(state, getProjectsMetadata(saved), id)
      /\ sessionFrame

loadProject(id) ==
  /\ IF getProject(storage, id) # NoItem
     THEN /\ state' = LOAD_PROJECT(state, getProject(storage, id))
          /\ storage' = autoSave(storage, TRUE, LOAD_PROJECT(state, getProject(storage, id)))
     ELSE UNCHANGED <<state, storage>>
  /\ sessionFrame

deleteProject(id) ==
  /\ storage' = persistence_deleteProject(storage, id)
  /\ state' = DELETE_PROJECT(state, id)
  /\ sessionFrame

\* the ids that the list of projects shows
ListedIds == {p.id : p \in Range(state.projects)}

SessionNames == {"Sales", "Trend"}
SessionTimes == {1}
SessionToggles == {NameRating}
SessionDatasets == {RatingsData}

NextSession ==
  \/ reload
  \/ \E data \in SessionDatasets : uploadData(data)
  \/ \E name \in SessionToggles : toggleFieldType(name)
  \/ \E field \in Range(state.fields) : assignField("x", field)
  \/ removeField("x")
  \/ clearAll
  \/ \E name \in SessionNames, uuid \in ProjectIds, now \in SessionTimes :
        saveProject(name, uuid, now)
  \/ \E id \in ListedIds : loadProject(id)
  \/ \E id \in ListedIds : deleteProject(id)

SpecSession == InitSession /\ [][NextSession]_vars

---------------------------------------------------------------------------
(* The same application, used for its filters *)

\* the value that a filter gets when the user narrows it
narrowed(filter) ==
  IF filter.filterType = "selection"
  THEN [selected |-> <<>>, available |-> filter.value.available]
  ELSE IF filter.filterType = "range"
  THEN [min |-> filter.value.max, max |-> filter.value.max]
  ELSE [min |-> TxtDateYMD, max |-> Null]

FilterIds == {"p1"}
\* the file that is uploaded holds the rows of the bundled data
FilterDatasets == {DefaultData}

NextFilters ==
  \/ reload
  \/ \E data \in FilterDatasets : uploadData(data)
  \/ \E field \in Range(state.fields) : addFilter(field)
  \/ \E filter \in Range(state.filters) : updateFilter(filter.fieldName, narrowed(filter))
  \/ \E field \in Range(state.fields) : removeFilter(field.name)
  \/ clearFilters
  \/ clearAll
  \/ \E uuid \in FilterIds : saveProject("Sales", uuid, 1)
  \/ \E id \in ListedIds : loadProject(id)
  \/ \E id \in ListedIds : deleteProject(id)

SpecFilters == InitSession /\ [][NextFilters]_vars

---------------------------------------------------------------------------
(* loadData on its own: a dataset is loaded into a state that the          *)
(* application can be in                                                   *)

\* a parsed JSON array whose second item is null
BrokenData == <<RatingsData[1], NullRow>>

UploadDatasets == AppDatasets \cup {BrokenData}

\* a state in which a project was saved and the chart was given a mark, a
\* title and the table view
decorated(st) ==
  SET_VIEW_MODE(
    SET_CHART_TITLE(
      SET_MARK_TYPE(
        SAVE_PROJECT(st, <<[id |-> "p1", name |-> "Sales", updatedAt |-> 1]>>, "p1"),
        "bar"),
      "Sales by year"),
    "table")

UploadStates ==
  ReducerStates
    \cup {decorated(st) : st \in ReducerStates}
    \cup {loadedWith(initialState, BrokenData), decorated(loadedWith(initialState, BrokenData))}

InitUpload ==
  /\ state \in UploadStates
  /\ upload \in {[pending |-> TRUE, data |-> data] : data \in UploadDatasets}
  /\ NoDetection
  /\ FreshBrowser

SpecUpload == InitUpload /\ [][NextLoad]_vars

---------------------------------------------------------------------------
(* What the properties speak of, stated on the column itself *)

Done == pc = "done"

IsAbsent(v) == v = Null \/ v = Undefined \/ v = TxtEmpty

\* the first SAMPLE_SIZE values of the column that are not absent
ColumnSample ==
  LET present == SelectSeq(values, LAMBDA v : ~IsAbsent(v))
  IN  [i \in 1..(IF Len(present) < SAMPLE_SIZE THEN Len(present) ELSE SAMPLE_SIZE)
         |-> present[i]]

SampleSize == Len(ColumnSample)

SampleValues == Range(ColumnSample)

IsText(v) == v.t = "string"
IsNumber(v) == v.t = "number"
IsDateText(v) == IsText(v) /\ DATE_PATTERNS(v.s)
IsVocabularyText(v) == IsText(v) /\ ORDINAL_STRING_PATTERNS(v.s)
ParsesAsNumber(v) == IsText(v) /\ StringToNumber(v.s).d # 0
IsNumericCell(v) == IsNumber(v) \/ ParsesAsNumber(v)
IsIntegralCell(v) == IsNumericCell(v) /\ Number(v).d = 1

TextCount == Len(SelectSeq(ColumnSample, IsText))
DateCount == Len(SelectSeq(ColumnSample, IsDateText))
VocabularyCount == Len(SelectSeq(ColumnSample, IsVocabularyText))
DistinctCount == Cardinality(SampleValues)

AllText == SampleSize > 0 /\ TextCount = SampleSize
AllNumeric == SampleSize > 0 /\ \A v \in SampleValues : IsNumericCell(v)
AllIntegral == SampleSize > 0 /\ \A v \in SampleValues : IsIntegralCell(v)
AllIntegerNumbers ==
  SampleSize > 0 /\ \A v \in SampleValues : IsNumber(v) /\ v.d = 1

\* at least 80% text, and at least 80% of the text has a date shape
MeetsTemporalThresholds ==
  /\ SampleSize > 0
  /\ 5 * TextCount >= 4 * SampleSize
  /\ 5 * DateCount >= 4 * TextCount

\* all text, two distinct values, half of them in a vocabulary
MeetsOrdinalVocabularyRule ==
  /\ AllText
  /\ DistinctCount >= 2
  /\ 2 * VocabularyCount >= SampleSize

IdLikeNames == {NameCustomerId}
IdLikeName == fieldName \in IdLikeNames

\* the integers of an integral sample
SampleIntegers == {Number(v).n : v \in SampleValues}
SpreadOf(S) ==
  (CHOOSE x \in S : \A y \in S : y <= x) - (CHOOSE x \in S : \A y \in S : x <= y)
SampleRange == SpreadOf(SampleIntegers)

\* adjacent pairs of the ascending sort that differ by exactly 1
SuccessorPairs(S) == Cardinality({x \in S : x + 1 \in S})
SequentialPairs == SuccessorPairs(SampleIntegers)
\* sequential ratio > num / 10; with a single value the ratio is undefined
SequentialRatioExceeds(num) ==
  SampleSize > 1 /\ 10 * SequentialPairs > num * (SampleSize - 1)
MeanOver(seq, bound) == SumInts(seq) > bound * Len(seq)
MeanExceeds10000 == MeanOver(ColumnSample, 10000)

\* the ID-shape heuristic, on a sample of integer numbers
IdShaped ==
  /\ AllIntegerNumbers
  /\ \/ SequentialRatioExceeds(7)
     \/ MeanExceeds10000 /\ SequentialRatioExceeds(3)

---------------------------------------------------------------------------
(* C1: detectFieldType is total: it returns one of quantitative, nominal,  *)
(* ordinal, temporal for every column and field name, and nominal when the *)
(* column is empty or holds only absent values (null, undefined, empty     *)
(* text), whatever the field name.                                         *)
C1_TotalAndAbsentIsNominal ==
  Done =>
    /\ result \in FieldTypes
    /\ (\A i \in DOMAIN values : IsAbsent(values[i])) => result = "nominal"

C1_Witness ==
  /\ Done
  /\ Len(values) >= 3
  /\ {Null, Undefined, TxtEmpty} \subseteq Range(values)
  /\ \A i \in DOMAIN values : IsAbsent(values[i])
  /\ fieldName = NameCustomerId
  /\ result = "nominal"

(* C2: never temporal when fewer than 80% of the sample values are text,   *)
(* nor when fewer than 80% of the text values have a date shape; a column  *)
(* of numbers only is never temporal, for any field name.                  *)
C2_NotTemporalBelowThresholds ==
  Done =>
    /\ 5 * TextCount < 4 * SampleSize => result # "temporal"
    /\ 5 * DateCount < 4 * TextCount => result # "temporal"
    /\ (\A v \in SampleValues : IsNumber(v)) => result # "temporal"

C2_Witness ==
  /\ Done
  /\ SampleSize = 4
  /\ TextCount = 3 /\ DateCount = 3
  /\ result # "temporal"

(* C3: whenever at least 80% of the sample values are text and at least    *)
(* 80% of those have a date shape, the result is temporal, whatever the    *)
(* other values and the field name; exactly 80% suffices.                  *)
C3_TemporalAtThresholds ==
  Done /\ MeetsTemporalThresholds => result = "temporal"

C3_Witness ==
  /\ Done
  /\ SampleSize = 5
  /\ TextCount = 5 /\ DateCount = 4
  /\ fieldName = NameCustomerId
  /\ result = "temporal"

(* C4: a numeric sample (numbers or text that parses as a number) under an *)
(* identifier-like field name is nominal, whatever the shape of the values *)
(* (fractional, wide range, constant or not sequential).                   *)
C4_IdNameMakesNumericNominal ==
  Done /\ AllNumeric /\ IdLikeName => result = "nominal"

C4_Witness ==
  /\ Done
  /\ AllNumeric /\ ~AllIntegral
  /\ DistinctCount >= 3
  /\ IdLikeName
  /\ result = "nominal"

(* C5: a sample of integer numbers under a field name that is absent or    *)
(* not identifier-like is nominal whenever the sequential ratio exceeds    *)
(* 0.7, or the mean exceeds 10000 and the sequential ratio exceeds 0.3;    *)
(* otherwise this heuristic does not make it nominal.                      *)
C5_IdShapeOfIntegers ==
  Done /\ AllIntegerNumbers /\ ~IdLikeName =>
    (result = "nominal" <=>
       \/ SequentialRatioExceeds(7)
       \/ MeanExceeds10000 /\ SequentialRatioExceeds(3))

C5_Witness ==
  /\ Done
  /\ AllIntegerNumbers /\ ~IdLikeName
  /\ MeanExceeds10000
  /\ SequentialRatioExceeds(3) /\ ~SequentialRatioExceeds(7)
  /\ result = "nominal"

(* C6: an all-text sample below the temporal thresholds with at least 2    *)
(* distinct values, at least half of them in a vocabulary, is ordinal; a   *)
(* single-valued text column is not ordinal; and a sample with a non-text  *)
(* value is ordinal only by the rule for small integer scales, never by    *)
(* the vocabulary.                                                         *)
C6_OrdinalVocabulary ==
  Done =>
    /\ MeetsOrdinalVocabularyRule /\ ~MeetsTemporalThresholds => result = "ordinal"
    /\ AllText /\ DistinctCount = 1 => result # "ordinal"
    /\ SampleSize > 0 /\ ~AllText /\ result = "ordinal"
         => AllIntegral /\ DistinctCount >= 2 /\ SampleRange <= CATEGORICAL_THRESHOLD

C6_Witness ==
  /\ Done
  /\ AllText
  /\ SampleSize = 4 /\ VocabularyCount = 2 /\ DistinctCount = 2
  /\ result = "ordinal"

(* C7: an integral sample (numbers or numeric text) that is neither        *)
(* identifier-named nor ID-shaped is quantitative if its range exceeds     *)
(* 100, else quantitative if it has one distinct value, else ordinal if it *)
(* has at most 20 distinct values and range at most 20, else quantitative. *)
C7_NumericDecisionOrder ==
  Done /\ AllIntegral /\ ~IdLikeName /\ ~IdShaped =>
    /\ result = IF SampleRange > 100 THEN "quantitative"
                ELSE IF DistinctCount = 1 THEN "quantitative"
                ELSE IF DistinctCount <= 20 /\ SampleRange <= 20 THEN "ordinal"
                ELSE "quantitative"
    /\ result = "ordinal" =>
         DistinctCount >= 2 /\ DistinctCount <= 20 /\ SampleRange <= 20

C7_Witness ==
  /\ Done
  /\ AllIntegral /\ ~IdLikeName /\ ~IdShaped
  /\ SampleRange = 20 /\ DistinctCount = 2 /\ SampleSize = 3
  /\ result = "ordinal"

(* C8: a numeric sample under a field name that is absent or not           *)
(* identifier-like, one of whose values is not integral, is quantitative,  *)
(* whatever its range, distinct count, mean or sequential integers.        *)
C8_DecimalsAreQuantitative ==
  Done /\ AllNumeric /\ ~AllIntegral /\ ~IdLikeName => result = "quantitative"

C8_Witness ==
  /\ Done
  /\ AllNumeric /\ ~IdLikeName
  /\ {Num(125, 10), IntNum(5), IntNum(6)} \subseteq SampleValues
  /\ result = "quantitative"

(* C9: a numeric sample with exactly one distinct value and no             *)
(* identifier-like field name is quantitative: a one-element sample of any *)
(* magnitude, and a constant column.                                       *)
C9_SingleValueIsQuantitative ==
  Done /\ AllNumeric /\ DistinctCount = 1 /\ ~IdLikeName => result = "quantitative"

C9_Witness ==
  /\ Done
  /\ ColumnSample = <<IntNum(10003)>>
  /\ ~IdLikeName
  /\ result = "quantitative"

(* C10: a sample below the temporal thresholds that does not satisfy the   *)
(* ordinal-vocabulary rule and holds a text value that does not parse as a *)
(* number is nominal, whatever the field name.                             *)
C10_NonNumericTextIsNominal ==
  Done /\ ~MeetsTemporalThresholds /\ ~MeetsOrdinalVocabularyRule
       /\ (\E v \in SampleValues : IsText(v) /\ ~ParsesAsNumber(v))
    => result = "nominal"

C10_Witness ==
  /\ Done
  /\ {TxtCust001, IntNum(7)} \subseteq SampleValues
  /\ fieldName = NameCustomerId
  /\ result = "nominal"

---------------------------------------------------------------------------
\* the first SAMPLE_SIZE values of a column that are not absent
FirstPresent(col) ==
  LET present == SelectSeq(col, LAMBDA v : ~IsAbsent(v))
  IN  [i \in 1..(IF Len(present) < SAMPLE_SIZE THEN Len(present) ELSE SAMPLE_SIZE)
         |-> present[i]]

BothDone == pc = "done" /\ otherResult # "none"

(* C11: detectFieldType depends only on the field name and the first 100   *)
(* values of the column that are not absent, in their order: two columns   *)
(* whose first 100 present values coincide get the same tag under the same *)
(* name, however many absent values lie between them and whatever follows  *)
(* the 100th present value.                                                *)
C11_SampleDeterminesTag ==
  (BothDone /\ FirstPresent(values) = FirstPresent(other)) => result = otherResult

\* 100 fives, classified quantitative, once followed by text and once led by
\* an absent value
C11_Witness ==
  /\ BothDone
  /\ values # other
  /\ FirstPresent(values) = FirstPresent(other)
  /\ Len(FirstPresent(values)) = SAMPLE_SIZE
  /\ \E i \in DOMAIN values : values[i] = TxtRed
  /\ \E i \in DOMAIN other : IsAbsent(other[i])
  /\ \A i \in DOMAIN other : other[i] # TxtRed
  /\ result = "quantitative"
  /\ otherResult = "quantitative"

---------------------------------------------------------------------------
\* the dataset has been loaded into the application state
Loaded == ~upload.pending /\ ~state.isLoading

HasKey(row, name) == \E i \in DOMAIN row : row[i].key = name

\* the cells of a column over all rows, absent where a row lacks the key
ColumnCells(data, name) ==
  [r \in DOMAIN data |->
     IF HasKey(data[r], name)
     THEN data[r][CHOOSE i \in DOMAIN data[r] : data[r][i].key = name].value
     ELSE Undefined]

(* C12: detectAllFields gives no descriptor for an empty dataset; else one *)
(* descriptor per key of the first row, in the order of those keys, each   *)
(* with the type detectFieldType gives the cells of that column over all   *)
(* rows under the column's name; a key of a later row only gets no         *)
(* descriptor and a row without the key contributes an absent value.       *)
C12_OneDescriptorPerFirstRowKey ==
  Loaded =>
    /\ state.data = <<>> => state.fields = <<>>
    /\ state.data # <<>> =>
         /\ Len(state.fields) = Len(state.data[1])
         /\ \A i \in DOMAIN state.fields :
              /\ state.fields[i].name = state.data[1][i].key
              /\ state.fields[i].type =
                   detectFieldType(ColumnCells(state.data, state.fields[i].name),
                                   state.fields[i].name)

\* the first row holds a date under price only, the second row a number
\* under customer_id only: one temporal descriptor, for price
C12_Witness ==
  /\ Loaded
  /\ Len(state.data) = 2
  /\ ObjectKeys(state.data[1]) = <<NamePrice>>
  /\ ObjectKeys(state.data[2]) = <<NameCustomerId>>
  /\ state.data[1][1].value = TxtDateYMD
  /\ Len(state.fields) = 1
  /\ state.fields[1].name = NamePrice
  /\ state.fields[1].type = "temporal"

(* C13: the uniqueCount of every descriptor is the number of distinct      *)
(* values of the column over all rows that are not absent, where absent    *)
(* means null, undefined or the empty text.                                *)
C13_UniqueCountSkipsAbsent ==
  Loaded =>
    \A i \in DOMAIN state.fields :
      state.fields[i].uniqueCount =
        Cardinality({v \in Range(ColumnCells(state.data, state.fields[i].name)) :
                       ~IsAbsent(v)})

---------------------------------------------------------------------------
(* C14: classification has no hidden state: a call of detectFieldType      *)
(* returns the tag that the column and the name determine, the same on     *)
(* every call whatever columns were classified before it or between two of *)
(* its calls, and a call changes neither its input column nor the pattern  *)
(* tables.                                                                 *)
C14_NoHiddenState ==
  [][/\ result' \in {result, detectFieldType(values, fieldName)}
     /\ result # "none" => result' = result
     /\ otherResult' \in {otherResult, detectFieldType(other, fieldName)}
     /\ otherResult # "none" => otherResult' = otherResult
     /\ values' = values
     /\ other' = other
     /\ lastIndex' = lastIndex]_vars

\* a column of dates and a column of levels have both been classified
C14_Witness ==
  /\ pc = "calls"
  /\ values = <<TxtDateYMD, TxtDateYMD>>
  /\ other = <<TxtLow, TxtHigh>>
  /\ result = "temporal"
  /\ otherResult = "ordinal"
  /\ lastIndex = NoMatchYet

---------------------------------------------------------------------------
(* C15: the checks have a fixed precedence: temporal, then ordinal text,   *)
(* then the identifier name, then the identifier shape, then the generic   *)
(* numeric rules, then the nominal fallback.  The identifier name counts   *)
(* inside the numeric branch only: under any name, identifier-like or not, *)
(* a sample that meets the temporal thresholds is temporal and an all-text *)
(* sample that satisfies the ordinal-vocabulary rule is ordinal.           *)
C15_FixedPrecedence ==
  Done /\ SampleSize > 0 =>
    IF MeetsTemporalThresholds THEN result = "temporal"
    ELSE IF MeetsOrdinalVocabularyRule THEN result = "ordinal"
    ELSE IF ~AllNumeric THEN result = "nominal"
    ELSE IF IdLikeName THEN result = "nominal"
    ELSE IF IdShaped THEN result = "nominal"
    ELSE result \in {"quantitative", "ordinal"}

\* levels of a vocabulary in a column with an identifier-like name
C15_Witness ==
  /\ Done
  /\ IdLikeName
  /\ ~MeetsTemporalThresholds
  /\ MeetsOrdinalVocabularyRule
  /\ VocabularyCount = SampleSize
  /\ result = "ordinal"

---------------------------------------------------------------------------
\* the type detectFieldType gives the column of a field of the loaded data
DetectedType(name) == detectFieldType(ColumnCells(state.data, name), name)

TypeOf(st, name) == {st.fields[i].type : i \in {j \in DOMAIN st.fields : st.fields[j].name = name}}

(* C16: the user override only toggles between ordinal and nominal:        *)
(* TOGGLE_FIELD_TYPE makes an ordinal field nominal and a nominal field    *)
(* ordinal and never changes a quantitative or temporal field; so in every *)
(* reachable state a field detected as quantitative or temporal still has  *)
(* its detected type.                                                      *)
C16_ToggleOnlyOrdinalNominal ==
  /\ [][\A name \in AppFieldNames :
          toggleFieldType(name) =>
            \A i \in DOMAIN state.fields :
              state'.fields[i].type =
                IF state.fields[i].name # name THEN state.fields[i].type
                ELSE IF state.fields[i].type = "ordinal" THEN "nominal"
                ELSE IF state.fields[i].type = "nominal" THEN "ordinal"
                ELSE state.fields[i].type]_vars
  /\ [](\A i \in DOMAIN state.fields :
          DetectedType(state.fields[i].name) \in {"quantitative", "temporal"} =>
            state.fields[i].type = DetectedType(state.fields[i].name))

---------------------------------------------------------------------------
SmallScale == DistinctCount >= 2 /\ DistinctCount <= 20 /\ SampleRange <= 20

C18_YearsAreOrdinal ==
  Done /\ values = YearColumn /\ fieldName = Undefined => result = "ordinal"

(* C18, amended: detectFieldType([2020, 2021, 2022, 2023, 2024]) without a *)
(* field name is nominal: the values are successive integers (sequential   *)
(* ratio 1.0 > 0.7), so the identifier shape decides before the rule for   *)
(* small ranges is reached.                                                *)
C18_YearsAreNominal ==
  Done /\ values = YearColumn /\ fieldName = Undefined =>
    /\ SequentialRatioExceeds(7)
    /\ SmallScale
    /\ result = "nominal"

C18_Witness ==
  /\ Done
  /\ values = YearColumn
  /\ fieldName = Undefined
  /\ SampleRange = 4 /\ DistinctCount = 5
  /\ result = "nominal"

\* the endings the identifier-naming test is said to accept
HasIdEnding(name) ==
  LET l == ToLower(name.s)
  IN  \/ l = <<"i", "d">>
      \/ EndsWith(l, <<"i", "d">>)
      \/ EndsWith(l, <<"_", "i", "d">>)
      \/ EndsWith(l, <<"c", "o", "d", "e">>)
      \/ EndsWith(l, <<"k", "e", "y">>)
      \/ EndsWith(l, <<"_", "k", "e", "y">>)

(* C19: the identifier-naming test accepts a name exactly when, ignoring    *)
(* case, it is id or ends in id, _id, code, key or _key: a numeric column   *)
(* that the numeric rules would not make nominal is nominal exactly under   *)
(* such a name, apikey and hotkey included.                                 *)
C19_IdNameEndings ==
  Done /\ AllNumeric /\ ~IdShaped => (result = "nominal" <=> HasIdEnding(fieldName))

\* the numbers of a numeric sample
CoercedColumn == [i \in DOMAIN ColumnSample |-> Number(ColumnSample[i])]

(* C20: the identifier shape is tested on the numbers the sample coerces    *)
(* to: a sample of numeric text gets the tag of the sample of the numbers   *)
(* it stands for, so numeric text of identifier shape is nominal, and a     *)
(* number replaced by its text does not change the result.                  *)
C20_NumericTextAsNumbers ==
  Done /\ AllNumeric => result = detectFieldType(CoercedColumn, fieldName)

\* the long forms of the size scale as the documentation lists them
SizeLongForms == {TxtSmall, TxtMedium, Str(<<"l", "a", "r", "g", "e">>), TxtXLarge}

(* C21: the size vocabulary holds the long forms small, medium, large and   *)
(* x-large: a column of two or more distinct long forms, such as            *)
(* ['small', 'x-large', 'x-large'], is ordinal.                             *)
C21_HyphenatedSizeIsOrdinal ==
  Done /\ SampleSize > 0 /\ SampleValues \subseteq SizeLongForms /\ DistinctCount >= 2
    => result = "ordinal"

\* the two columns hold the same values, each the same number of times
IsReordering(a, b) ==
  /\ Len(a) = Len(b)
  /\ \A v \in Range(a) \cup Range(b) :
        Cardinality({i \in DOMAIN a : a[i] = v}) = Cardinality({i \in DOMAIN b : b[i] = v})

PresentCount(col) == Len(SelectSeq(col, LAMBDA v : ~IsAbsent(v)))

(* C30: for a column of at most 100 values that are not absent, the tag     *)
(* does not depend on the order of the values: every reordering of the      *)
(* column gets the same tag under the same name.                            *)
C30_OrderInsensitive ==
  BothDone /\ IsReordering(values, other) /\ PresentCount(values) <= SAMPLE_SIZE
    => result = otherResult

\* a column in ascending order that looks like identifiers, and the same
\* values out of order
C30_Witness ==
  /\ BothDone
  /\ values = <<IntNum(1), IntNum(2), IntNum(3)>>
  /\ other = <<IntNum(2), IntNum(1), IntNum(3)>>
  /\ result = "nominal"

---------------------------------------------------------------------------
(* C23: every successful result of parseFile, for CSV, JSON and Excel,      *)
(* holds at most 100000 rows, which are the first rows of the source in     *)
(* their order, and its rowCount is the number of rows of its data.         *)
C23_RowCap ==
  pc = "parsed" /\ parseResult.ok =>
    /\ Length(parseResult.data) <= MAX_ROWS
    /\ Length(parseResult.data) <= Length(file.rows)
    /\ parseResult.data.from = file.rows.from
    /\ parseResult.rowCount = Length(parseResult.data)

\* a JSON file of 100001 objects has been parsed into its first 100000
C23_Witness ==
  /\ pc = "parsed"
  /\ getFileType(file) = "json"
  /\ Length(file.rows) = MAX_ROWS + 1
  /\ parseResult.ok
  /\ Length(parseResult.data) = MAX_ROWS

---------------------------------------------------------------------------
MetadataIds(st) == {m.id : m \in Range(getProjectsMetadata(st))}

\* the metadata entry of id
MetadataOf(st, id) ==
  getProjectsMetadata(st)[findIndex(getProjectsMetadata(st), id)]

StoreConsistent(st) ==
  LET metadata == getProjectsMetadata(st)
  IN  /\ \A i, j \in DOMAIN metadata : metadata[i].id = metadata[j].id => i = j
      /\ \A id \in StoreIds : getProject(st, id) # NoItem <=> id \in MetadataIds(st)
      /\ \A m \in Range(metadata) :
            /\ getProject(st, m.id).id = m.id
            /\ getProject(st, m.id).name = m.name
            /\ getProject(st, m.id).updatedAt = m.updatedAt

\* the ids of the metadata in their order
IdOrder(st) == [i \in DOMAIN getProjectsMetadata(st) |-> getProjectsMetadata(st)[i].id]

(* C25: after any sequence of persistence.saveProject and deleteProject     *)
(* calls the ids of the metadata are pairwise distinct, getProject(id) is   *)
(* non-null exactly for the ids that have a metadata entry, and the entry   *)
(* carries the name and updatedAt of the stored project; getProject(id)     *)
(* returns the project saved last under id, and saving an id that has an    *)
(* entry replaces the entry in place.                                       *)
C25_StoreConsistent ==
  /\ [](pc = "store" => StoreConsistent(storage))
  /\ [][/\ lastCall'.op = "saveProject" =>
            /\ getProject(storage', lastCall'.arg.id) = lastCall'.arg
            /\ lastCall'.arg.id \in MetadataIds(storage) => IdOrder(storage') = IdOrder(storage)
            /\ lastCall'.arg.id \notin MetadataIds(storage) =>
                  IdOrder(storage') = Append(IdOrder(storage), lastCall'.arg.id)
            /\ \A id \in StoreIds \ {lastCall'.arg.id} :
                  getProject(storage', id) = getProject(storage, id)
        /\ lastCall'.op = "deleteProject" =>
            /\ getProject(storage', lastCall'.arg) = NoItem
            /\ \A id \in StoreIds \ {lastCall'.arg} :
                  getProject(storage', id) = getProject(storage, id)]_vars

\* the first of two projects has been saved again, under a new name
C25_Witness ==
  /\ pc = "store"
  /\ lastCall.op = "saveProject"
  /\ Len(getProjectsMetadata(storage)) = 2
  /\ getProjectsMetadata(storage)[1].id = lastCall.arg.id
  /\ getProjectsMetadata(storage)[1].updatedAt = MaxTime
  /\ getProject(storage, lastCall.arg.id) = lastCall.arg

---------------------------------------------------------------------------
FieldWriters == {"SET_FIELDS", "RESET_FOR_NEW_DATA", "TOGGLE_FIELD_TYPE"}

(* C22: of all reducer actions only SET_FIELDS, RESET_FOR_NEW_DATA and      *)
(* TOGGLE_FIELD_TYPE change state.fields; TOGGLE_FIELD_TYPE changes only    *)
(* the type of the descriptors that have the given name, and leaves the     *)
(* names, the unique counts, the order and every other descriptor as they   *)
(* were, so that a name no descriptor has leaves the fields unchanged.      *)
C22_FieldsFrame ==
  [][lastCall'.op = "dispatch" =>
       /\ lastCall'.arg.type \notin FieldWriters => state'.fields = state.fields
       /\ lastCall'.arg.type = "TOGGLE_FIELD_TYPE" =>
            /\ Len(state'.fields) = Len(state.fields)
            /\ \A i \in DOMAIN state.fields :
                  /\ state'.fields[i].name = state.fields[i].name
                  /\ state'.fields[i].uniqueCount = state.fields[i].uniqueCount
                  /\ state.fields[i].name # lastCall'.arg.fieldName =>
                        state'.fields[i] = state.fields[i]]_vars

\* the type of rating has been toggled in a state that has two fields
C22_Witness ==
  /\ pc = "reduced"
  /\ lastCall.arg.type = "TOGGLE_FIELD_TYPE"
  /\ lastCall.arg.fieldName = NameRating
  /\ Len(state.fields) = 2
  /\ state.fields[1].type = "temporal"
  /\ state.fields[2].name = NameRating
  /\ state.fields[2].type = "nominal"

---------------------------------------------------------------------------
(* C26: in every reachable state of the application, also after the page    *)
(* is loaded again and the last session is restored, currentProjectId is    *)
(* null, 'temp-session' or the id of a project in state.projects; deleting  *)
(* the current project sets it to null and deleting another project leaves  *)
(* it as it was.                                                            *)
C26_CurrentProjectIsListed ==
  /\ [](state.currentProjectId \in {NoValue, "temp-session"} \cup ListedIds)
  /\ [][\A id \in ProjectIds :
          deleteProject(id) =>
            state'.currentProjectId =
              IF state.currentProjectId = id THEN NoValue ELSE state.currentProjectId]_vars

---------------------------------------------------------------------------
ReusesCurrentId == state.currentProjectId \notin {NoValue, "temp-session"}

(* C29: saveProject(name) saves under currentProjectId when that is set and *)
(* is not 'temp-session', and then overwrites the stored project: the       *)
(* number of projects does not grow and the stored name is the new one;     *)
(* otherwise it saves a new project under a fresh id, different from every  *)
(* id there is.  Afterwards currentProjectId is the saved id, state.projects *)
(* is the persisted metadata, and the stored project holds the encodings,   *)
(* filters, markType and chartTitle the state had when it was saved.        *)
C29_SaveProject ==
  [][\A name \in SessionNames, uuid \in ProjectIds, now \in SessionTimes :
       saveProject(name, uuid, now) =>
         /\ ReusesCurrentId =>
               /\ state'.currentProjectId = state.currentProjectId
               /\ Len(getProjectsMetadata(storage')) = Len(getProjectsMetadata(storage))
               /\ Len(state'.projects) = Len(state.projects)
         /\ ~ReusesCurrentId =>
               /\ state'.currentProjectId = uuid
               /\ uuid \notin ListedIds \cup MetadataIdsOf(storage)
               /\ Len(state'.projects) = Len(state.projects) + 1
         /\ state'.projects = getProjectsMetadata(storage')
         /\ getProject(storage', state'.currentProjectId).name = name
         /\ getProject(storage', state'.currentProjectId).encodings = state.encodings
         /\ getProject(storage', state'.currentProjectId).filters = state.filters
         /\ getProject(storage', state'.currentProjectId).markType = state.markType
         /\ getProject(storage', state'.currentProjectId).chartTitle = state.chartTitle]_vars

---------------------------------------------------------------------------
(* C27: in every reachable state of the application, for every encoding     *)
(* channel whose field name occurs in state.fields, the type in the         *)
(* descriptor of the encoding is the type of the descriptor of that name    *)
(* in state.fields; this holds through TOGGLE_FIELD_TYPE, ASSIGN_FIELD of a *)
(* descriptor of state.fields, saveProject followed later by LOAD_PROJECT,  *)
(* and the restoring of the last session.                                   *)
C27_EncodingTypesAgree ==
  \A c \in DOMAIN state.encodings : \A i \in DOMAIN state.fields :
    state.fields[i].name = state.encodings[c].field.name
      => state.fields[i].type = state.encodings[c].field.type

---------------------------------------------------------------------------
NoTwoFilters(filters) ==
  \A i, j \in DOMAIN filters : filters[i].fieldName = filters[j].fieldName => i = j

(* C24: in every reachable state of the application no two filters have the *)
(* same fieldName: ADD_FILTER for a field that has a filter leaves the      *)
(* state as it is, and UPDATE_FILTER, REMOVE_FILTER, CLEAR_FILTERS,         *)
(* CLEAR_ALL, RESET_FOR_NEW_DATA and LOAD_PROJECT of a project that was     *)
(* saved from a reachable state keep it so.                                 *)
C24_OneFilterPerField ==
  /\ [](NoTwoFilters(state.filters))
  /\ [][\A field \in Range(state.fields) :
          addFilter(field)
            /\ (\E i \in DOMAIN state.filters : state.filters[i].fieldName = field.name)
            => state' = state]_vars

\* two filters are set, the first was narrowed, and a project saved with
\* them has been loaded
C24_Witness ==
  /\ Len(state.filters) = 2
  /\ state.filters[1].filterType = "selection"
  /\ state.filters[1].value.selected = <<>>
  /\ state.filters[2].filterType = "range"
  /\ state.currentProjectId = "p1"
  /\ getProject(storage, "p1") # NoItem
  /\ getProject(storage, "p1").filters = state.filters
  /\ getLastSession(storage) # NoItem
  /\ getLastSession(storage).id = "p1"

---------------------------------------------------------------------------
(* C28: loadData(D) that completes without error leaves data = D, fields =  *)
(* detectAllFields(D), no encodings, no filters, markType 'auto', chartTitle *)
(* null, isLoading false and error null, and leaves projects,               *)
(* currentProjectId and viewMode as they were; if detection throws, the     *)
(* state ends with error set and isLoading false.                           *)
C28_LoadDataFrame ==
  [][upload.pending /\ ~upload'.pending =>
       /\ ~detectAllFieldsThrows(upload.data) =>
             /\ state'.data = upload.data
             /\ state'.fields = detectAllFields(upload.data)
             /\ state'.encodings = NoEncodings
             /\ state'.filters = <<>>
             /\ state'.markType = "auto"
             /\ state'.chartTitle = NoValue
             /\ state'.isLoading = FALSE
             /\ state'.error = NoValue
             /\ state'.projects = state.projects
             /\ state'.currentProjectId = state.currentProjectId
             /\ state'.viewMode = state.viewMode
       /\ detectAllFieldsThrows(upload.data) =>
             /\ state'.error # NoValue
             /\ state'.isLoading = FALSE]_vars

\* ratings have been loaded over a state that had a project, a title and
\* the table view
C28_Witness ==
  /\ ~upload.pending
  /\ state.data = RatingsData
  /\ Len(state.fields) = 2
  /\ state.encodings = NoEncodings
  /\ state.chartTitle = NoValue
  /\ state.currentProjectId = "p1"
  /\ state.viewMode = "table"
  /\ Len(state.projects) = 1

=============================================================================
